---- MODULE Spec2Model ----
(***************************************************************************)
(* Model of the credential issuance engine of passport-server:             *)
(* IssuanceService (ticket issuance through the persistent artifact cache, *)
(* memoized credential verification, the feed handlers registered with the *)
(* FeedHost) and the EdDSATicketPCD package it signs with.                 *)
(***************************************************************************)
EXTENDS Integers, Sequences, FiniteSets, TLC

(***************************************************************************)
(* Bounds of the model.                                                    *)
(***************************************************************************)
\* number of getOrGenerateTicket invocations started directly
MaxCalls == 2
\* number of cachedVerifySignaturePCD invocations started directly
MaxVerifyCalls == 2
\* largest value of the clock read by Date.now()
MaxTime == 1
\* number of poll requests the feed host answers
MaxRequests == 1
\* number of handleDevconnectCheckInByIdRequest invocations
MaxCheckins == 2
\* most ticket ids in one offline check-in upload
MaxBatch == 2
\* number of sync cycles one pipeline starts
MaxCycles == 2
\* number of chat join requests the auth bot receives
MaxJoinRequests == 2
\* number of handleSendAnonymousMessage invocations
MaxAnonCalls == 4
\* number of handleReactAnonymousMessage invocations
MaxReactCalls == 3
\* number of instantiatePipeline invocations
MaxInstantiations == 2

DirectCalls == 1..MaxCalls
DirectVerifyCalls == 1..MaxVerifyCalls

(***************************************************************************)
(* Values.                                                                 *)
(***************************************************************************)
\* JavaScript's undefined, for the string-valued optional fields
Undefined == "undefined"

\* TicketCategory
TicketCategoryZuConnect == 0
TicketCategoryDevconnect == 1
TicketCategoryZuzalu == 3

EdDSAPCDTypeName == "eddsa-ticket-pcd"

\* the server's EdDSA private key (IssuanceService.eddsaPrivateKey)
eddsaPrivateKey == "server-eddsa-key"

\* users table: identity commitment -> email of the registered user
Commitments == {"c_alice", "c_bob"}
UserEmail == [c \in Commitments |-> IF c = "c_alice" THEN "alice@x" ELSE "bob@x"]
UserUuid == [c \in Commitments |-> IF c = "c_alice" THEN "u-alice" ELSE "u-bob"]

\* fetchUserByCommitment: the row, if any
fetchUserByCommitment(commitment) ==
  IF commitment \in Commitments
  THEN << [ commitment |-> commitment, email |-> UserEmail[commitment],
            uuid |-> UserUuid[commitment] ] >>
  ELSE <<>>

\* fetchLoggedInZuzaluUser: alice is a Zuzalu resident
fetchLoggedInZuzaluUser(uuid) ==
  IF uuid = "u-alice"
  THEN << [ uuid |-> uuid, commitment |-> "c_alice", role |-> "resident",
            name |-> "alice", email |-> "alice@x" ] >>
  ELSE <<>>

\* fetchZuconnectTicketsByEmail: alice holds two Zuconnect tickets
fetchZuconnectTicketsByEmail(email) ==
  IF email = "alice@x"
  THEN << [ id |-> "z1", product_id |-> "zc-resident",
            attendee_name |-> "alice", attendee_email |-> email ],
          [ id |-> "z2", product_id |-> "zc-organizer",
            attendee_name |-> "alice", attendee_email |-> email ] >>
  ELSE <<>>

\* process.env.PASSPORT_CLIENT_URL
imageServerUrl == "https://client"

\* the serialized SemaphoreSignaturePCDs presented as credentials: alice's,
\* bob's (a user without Zuzalu or Zuconnect tickets), one of an identity
\* without a user row, a forged one (its proof does not verify) and one
\* that does not deserialize
SemaphoreSignaturePCDTypeName == "semaphore-signature-pcd"
SerializedCredential(commitment, proofValid, wellFormed) ==
  [ type |-> SemaphoreSignaturePCDTypeName,
    pcd |-> [ identityCommitment |-> commitment, proofValid |-> proofValid,
              wellFormed |-> wellFormed ] ]
Credentials ==
  { SerializedCredential("c_alice", TRUE, TRUE),
    SerializedCredential("c_bob", TRUE, TRUE),
    SerializedCredential("c_carol", TRUE, TRUE),
    SerializedCredential("c_alice", FALSE, TRUE),
    SerializedCredential("c_alice", FALSE, FALSE) }

TicketIds == {"t1", "t2", "t3"}
\* the order in which the store returns the rows
TicketOrder == <<"t1", "t2", "t3">>
\* most tickets one user holds in one feed
MaxFeedTickets == 2

\* a row of devconnect_pretix_tickets joined with its item and event
\* (DevconnectPretixTicketDBWithEmailAndItem)
TicketRow(id, email, eventName, consumed) ==
  [ id |-> id,
    full_name |-> "name-of-" \o email,
    email |-> email,
    event_name |-> eventName,
    item_name |-> "GA",
    checker |-> IF consumed THEN "checker@x" ELSE Undefined,
    pretix_events_config_id |-> "ev-" \o eventName,
    devconnect_pretix_items_info_id |-> "item-GA",
    zupass_checkin_timestamp |-> IF consumed THEN 1 ELSE 0,
    is_consumed |-> consumed,
    is_deleted |-> FALSE,
    position_id |-> "pos-" \o id,
    secret |-> "secret-" \o id,
    pretix_checkin_timestamp |-> 0 ]

\* the ticket tables the service can start from: alice holds t1 (a
\* Devconnect event) and t2 (SBC SRW), bob holds t3; t1 may already be
\* consumed
InitialTicketDBs ==
  { [ t \in TicketIds |->
        CASE t = "t1" -> TicketRow("t1", "alice@x", "Cowork", consumed)
          [] t = "t2" -> TicketRow("t2", "alice@x", "SBC SRW", FALSE)
          [] OTHER    -> TicketRow("t3", "bob@x", "Cowork", FALSE) ]
    : consumed \in BOOLEAN }

\* the ticket tables the check-in requests can start from: t1 may already
\* be consumed, t3 is revoked
CheckinTicketDBs ==
  { [ db EXCEPT !["t3"] = [@ EXCEPT !.is_deleted = TRUE] ] : db \in InitialTicketDBs }

\* ids a check-in request can name: those of the table and an unknown one
RequestedTicketIds == TicketIds \cup {"t9"}

\* fetchDevconnectSuperusersForEmail: bob is superuser of the Cowork event
fetchDevconnectSuperusersForEmail(email) ==
  IF email = "bob@x"
  THEN << [ email |-> email, pretix_events_config_id |-> "ev-Cowork" ] >>
  ELSE <<>>

ISSUANCE_STRING == "Issue me PCDs please."

\* the checker proofs of check-in requests: bob's (a superuser of one
\* event), carol's (no user row), bob's with a proof that does not verify,
\* bob's over another message, and one that does not deserialize
CheckerProof(commitment, proofValid, wellFormed, signedMessage) ==
  [ type |-> SemaphoreSignaturePCDTypeName,
    pcd |-> [ identityCommitment |-> commitment, proofValid |-> proofValid,
              wellFormed |-> wellFormed, signedMessage |-> signedMessage ] ]
CheckerProofs ==
  { CheckerProof("c_bob", TRUE, TRUE, ISSUANCE_STRING),
    CheckerProof("c_carol", TRUE, TRUE, ISSUANCE_STRING),
    CheckerProof("c_bob", FALSE, TRUE, ISSUANCE_STRING),
    CheckerProof("c_bob", TRUE, TRUE, "another message"),
    CheckerProof("c_bob", FALSE, FALSE, ISSUANCE_STRING) }

(***************************************************************************)
(* JSON text, as the sequence of the <<key, value>> pairs it holds in      *)
(* order.  JSON.stringify leaves out the keys whose value is undefined.    *)
(***************************************************************************)
\* the keys whose value may be undefined (string | undefined in ITicketData)
OptionalKeys == {"checkerEmail", "imageUrl", "imageAltText"}

JsonStringify(obj, order) ==
  LET present(k) ==
        /\ k \in DOMAIN obj
        /\ ~(k \in OptionalKeys /\ obj[k] = Undefined)
      keys == SelectSeq(order, present)
  IN  [i \in 1..Len(keys) |-> <<keys[i], obj[keys[i]]>>]

JsonKeys(text) == {text[i][1] : i \in 1..Len(text)}

JsonParse(text) ==
  [k \in JsonKeys(text) |->
     text[CHOOSE i \in 1..Len(text) : text[i][1] = k][2]]

\* getHash (sha256 of a string): collision-free on the strings of the model
getHash(s) == <<"sha256", s>>

(***************************************************************************)
(* ITicketData and the EdDSATicketPCD package.                             *)
(***************************************************************************)
\* the keys of the object literal ticketRowToTicketData builds, in order
TicketFieldOrder ==
  << "attendeeName", "attendeeEmail", "eventName", "ticketName",
     "checkerEmail", "ticketId", "eventId", "productId",
     "timestampConsumed", "timestampSigned", "attendeeSemaphoreId",
     "isConsumed", "isRevoked", "ticketCategory" >>

\* the keys of the object literals issueZuzaluTicketPCDs and
\* issueZuconnectTicketPCDs build, in order
ZuTicketFieldOrder ==
  << "attendeeSemaphoreId", "eventName", "checkerEmail", "ticketId",
     "ticketName", "attendeeName", "attendeeEmail", "eventId", "productId",
     "timestampSigned", "timestampConsumed", "isConsumed", "isRevoked",
     "ticketCategory", "imageUrl", "imageAltText" >>

\* the insertion order of the keys of a ticket object: each category is
\* built by one literal, and JSON.parse keeps the order of the text
FieldOrderOf(ticket) ==
  IF ticket.ticketCategory = TicketCategoryDevconnect
  THEN TicketFieldOrder ELSE ZuTicketFieldOrder

ticketRowToTicketData(t, semaphoreId, dateNow) ==
  [ attendeeName |-> t.full_name,
    attendeeEmail |-> t.email,
    eventName |-> t.event_name,
    ticketName |-> t.item_name,
    checkerEmail |-> t.checker,
    ticketId |-> t.id,
    eventId |-> t.pretix_events_config_id,
    productId |-> t.devconnect_pretix_items_info_id,
    timestampConsumed |-> t.zupass_checkin_timestamp,
    timestampSigned |-> dateNow,
    attendeeSemaphoreId |-> semaphoreId,
    isConsumed |-> t.is_consumed,
    isRevoked |-> t.is_deleted,
    ticketCategory |-> TicketCategoryDevconnect ]

\* the fields of ITicketData that are signed
SignedFields ==
  << "ticketId", "eventId", "productId", "timestampConsumed",
     "timestampSigned", "attendeeSemaphoreId", "isConsumed", "isRevoked",
     "ticketCategory" >>

ticketDataToBigInts(ticket) ==
  [i \in 1..Len(SignedFields) |->
     IF SignedFields[i] \in DOMAIN ticket
     THEN <<ticket[SignedFields[i]]>> ELSE <<>>]

\* EdDSAPCDPackage.prove: an EdDSA signature of the message
EdDSAProve(message, privateKey) ==
  [ message |-> message, signedWith |-> privateKey ]

\* EdDSATicketPCDPackage.prove
prove(ticket, privateKey, id) ==
  [ id |-> id,
    claim |-> [ticket |-> ticket],
    proof |-> [eddsaPCD |-> EdDSAProve(ticketDataToBigInts(ticket), privateKey)] ]

\* (mutant) a serialization that leaves the time of signing out
serialize_withoutTimestampSigned(pcd) ==
  [ type |-> EdDSAPCDTypeName,
    pcd |-> << <<"id", pcd.id>>,
               <<"eddsaPCD", pcd.proof.eddsaPCD>>,
               <<"ticket",
                 JsonStringify([k \in DOMAIN pcd.claim.ticket \ {"timestampSigned"} |->
                                  pcd.claim.ticket[k]],
                               FieldOrderOf(pcd.claim.ticket))>> >> ]

\* EdDSATicketPCDPackage.serialize
serialize(pcd) ==
  [ type |-> EdDSAPCDTypeName,
    pcd |-> << <<"id", pcd.id>>,
               <<"eddsaPCD", pcd.proof.eddsaPCD>>,
               <<"ticket", JsonStringify(pcd.claim.ticket,
                                         FieldOrderOf(pcd.claim.ticket))>> >> ]

\* whether EdDSATicketPCDPackage.deserialize returns (it throws on a wrapper
\* without eddsaPCD)
CanDeserialize(serialized) ==
  {"id", "eddsaPCD", "ticket"} \subseteq JsonKeys(serialized)

\* EdDSATicketPCDPackage.deserialize
deserialize(serialized) ==
  LET wrapper == JsonParse(serialized)
  IN  [ id |-> wrapper.id,
        claim |-> [ticket |-> JsonParse(wrapper.ticket)],
        proof |-> [eddsaPCD |-> wrapper.eddsaPCD] ]

(***************************************************************************)
(* IssuanceService: the ticket cache.                                      *)
(***************************************************************************)
\* (mutant) a fingerprint of the ticket's identity alone
getTicketCacheKey_byTicketId(ticketData) ==
  getHash(JsonStringify([ticketId |-> ticketData.ticketId,
                         attendeeSemaphoreId |-> ticketData.attendeeSemaphoreId],
                        FieldOrderOf(ticketData)))

getTicketCacheKey_keepsTimestamp(ticketData) ==
  getHash(JsonStringify(ticketData, FieldOrderOf(ticketData)))

getTicketCacheKey(ticketData) ==
  LET ticketCopy ==
        [k \in DOMAIN ticketData \ {"timestampSigned"} |-> ticketData[k]]
  IN  getHash(JsonStringify(ticketCopy, FieldOrderOf(ticketData)))

ticketDataToTicketPCD(ticketData, privateKey) ==
  prove(ticketData, privateKey, getHash(<<"issued-ticket-", ticketData.ticketId>>))

\* the cache_value cacheTicket stores: JSON.stringify(serialized)
CacheValueOf(ticket) ==
  LET serialized == serialize(ticket)
  IN  << <<"type", serialized.type>>, <<"pcd", serialized.pcd>> >>

\* a cache_value left by an earlier deployment that JSON.parse accepts and
\* EdDSATicketPCDPackage.deserialize rejects
CorruptCacheValue == << <<"type", EdDSAPCDTypeName>>, <<"pcd", <<>> >> >>

(***************************************************************************)
(* State.                                                                  *)
(***************************************************************************)
VARIABLES
  now,            \* the last value Date.now() returned
  ticketsDB,      \* devconnect_pretix_tickets: ticket id -> row
  cache,          \* PersistentCacheService: cache key -> cache_value
  pendingWrites,  \* the tickets of the cacheTicket calls nobody awaits
  calls,          \* the getOrGenerateTicket invocations
  vcalls,         \* the cachedVerifySignaturePCD invocations
  promises,       \* the promises SemaphoreSignaturePCDPackage.verify returned
  verificationPromiseCache, \* IssuanceService.verificationPromiseCache
  req,            \* the poll request the FeedHost is serving
  checkins,       \* the handleDevconnectCheckInByIdRequest invocations
  upload,         \* the handleUploadOfflineCheckins invocation
  redactedTickets, \* devconnect_pretix_redacted_tickets: the set of its rows
  termsAgreed,    \* users.terms_agreed: email -> version
  frogcrypto,     \* FrogcryptoService: its feeds and its last response
  pipelines,      \* the running pipelines: pipeline id -> its state
  ticketVerification, \* the last handleVerifyTicketRequest and its result
  telegram,       \* TelegramService: the verifications and the join requests
  unredaction,    \* the agreeTermsAndUnredactTickets transaction in flight
  instantiations  \* the instantiatePipeline invocations

issueVars == <<now, cache, pendingWrites, calls>>
verifyVars == <<vcalls, promises, verificationPromiseCache>>
checkinVars == <<checkins, upload>>
redactVars == <<redactedTickets, termsAgreed>>
\* the variables of the other services of the server
otherVars == <<frogcrypto, pipelines, ticketVerification, telegram, unredaction,
               instantiations>>
restVars == <<redactVars, otherVars>>
vars == <<now, ticketsDB, cache, pendingWrites, calls, vcalls, promises,
          verificationPromiseCache, req, checkins, upload, restVars>>

\* users: nobody has agreed to the terms yet
UserEmails == {UserEmail[c] : c \in Commitments}
\* the other services before their first request
\* FrogcryptoService before its first request: no feed, no response
NoFrogcrypto == [feeds |-> {}, response |-> <<>>]
\* no pipeline has been instantiated
NoPipelines == <<>>
\* an instantiatePipeline call: pipeline is the object it constructed, with
\* the state of its start(); startedAtReturn records (history) whether
\* start() had completed when the call returned
Instantiations == 1..MaxInstantiations
NoInstantiation ==
  [ pc |-> "idle", definition |-> <<>>, pipeline |-> <<>>, returned |-> <<>>,
    startedAtReturn |-> FALSE, error |-> "" ]
\* no agreeTermsAndUnredactTickets transaction has begun: begin is the
\* tables when it began (history), work the tables as its statements left
\* them, redacted the selected rows not inserted yet
NoTables == [ticketsDB |-> <<>>, redactedTickets |-> {}, termsAgreed |-> <<>>]
NoUnredaction ==
  [ pc |-> "idle", email |-> "", version |-> 0, begin |-> NoTables,
    work |-> NoTables, redacted |-> {} ]
\* a chat_join_request handler of the auth bot: verifiedAtFetch is what
\* fetchTelegramVerificationStatus returned, messages what the user was sent;
\* leftAtFetch records (history) whether the user had left the chat and not
\* verified again when the status was read
JoinRequests == 1..MaxJoinRequests
NoJoinRequest ==
  [ pc |-> "idle", userId |-> "", chatId |-> "", verifiedAtFetch |-> <<>>,
    leftAtFetch |-> FALSE, approved |-> FALSE, messages |-> <<>> ]
\* a handleSendAnonymousMessage call: nullifierData is what
\* fetchAnonTopicNullifier returned, newTimestamps what the call will store
AnonCalls == 1..MaxAnonCalls
NoAnonCall ==
  [ pc |-> "idle", nullifierHash |-> "", nullifierData |-> <<>>,
    newTimestamps |-> <<>>, error |-> "", sent |-> FALSE ]
\* the anonymous topic: the timestamps stored per nullifier hash (absent
\* without a row), the messages posted to the topic and those recorded
NullifierHashes == {"nh-1", "nh-2"}
NoAnon ==
  [ nullifiers |-> [n \in NullifierHashes |-> <<>>],
    posted |-> [n \in NullifierHashes |-> 0],
    recorded |-> [n \in NullifierHashes |-> 0],
    calls |-> [k \in AnonCalls |-> NoAnonCall] ]
\* a handleReactAnonymousMessage call; duplicateAtInsert records (history)
\* whether the reaction was already stored when the call tried to insert it
ReactCalls == 1..MaxReactCalls
NoReactCall ==
  [ pc |-> "idle", request |-> <<>>, error |-> "", duplicateAtInsert |-> FALSE ]
\* the reactions to anonymous messages: how many rows are stored for each
\* (sender nullifier, message id, reaction)
NoReacts ==
  [ reactions |-> <<>>, calls |-> [k \in ReactCalls |-> NoReactCall] ]
\* TelegramService after start: nobody is verified; left is the history of
\* the (user, chat) pairs that left or were kicked and did not verify since;
\* verification is the last call of the /telegram/verify route and its outcome
NoTelegram ==
  [ verifications |-> {}, left |-> {},
    joins |-> [j \in JoinRequests |-> NoJoinRequest],
    verification |-> <<>>, anon |-> NoAnon, reacts |-> NoReacts ]
InitRest ==
  /\ redactedTickets = {}
  /\ termsAgreed = [email \in UserEmails |-> 0]
  /\ frogcrypto = NoFrogcrypto
  /\ pipelines = NoPipelines
  /\ ticketVerification = <<>>
  /\ telegram = NoTelegram
  /\ unredaction = NoUnredaction
  /\ instantiations = [i \in Instantiations |-> NoInstantiation]

\* the getOrGenerateTicket calls of the request being served, one per ticket
FeedCalls == {MaxCalls + i : i \in 1..MaxFeedTickets}
FeedCall(i) == MaxCalls + i
\* the cachedVerifySignaturePCD call of the request being served
FeedVerifyCall == MaxVerifyCalls + 1

\* the cachedVerifySignaturePCD call of the upload being served
UploadVerifyCall == MaxVerifyCalls + 2
Calls == DirectCalls \cup FeedCalls
VerifyCalls == DirectVerifyCalls \cup {FeedVerifyCall, UploadVerifyCall}
CheckinCalls == 1..MaxCheckins

\* served counts the requests answered so far; checkedIn holds the tickets
\* whose check-in had returned success when the request arrived
NoRequest ==
  [ served |-> 0, pc |-> "idle", feed |-> "", pcd |-> <<>>, actions |-> <<>>,
    error |-> "", verified |-> FALSE, failedAfterCheck |-> FALSE,
    issued |-> <<>>, tickets |-> <<>>, checkedIn |-> {} ]

\* result is <<>> until the handler returns, then its CheckTicketInByIdResult
\* or the error it threw; checked is the row checkDevconnectTicketById read,
\* consumed tells whether consumeDevconnectPretixTicket updated the row
NoCheckin ==
  [ pc |-> "idle", checkerProof |-> <<>>, ticketId |-> "", checked |-> <<>>,
    consumed |-> FALSE, result |-> <<>>, prior |-> {} ]

\* log has one entry for every id checkInOfflineTickets has dealt with;
\* served counts the uploads answered so far
NoUpload ==
  [ served |-> 0, pc |-> "idle", checkerProof |-> <<>>, ids |-> <<>>,
    log |-> <<>>, result |-> <<>> ]

NoCall ==
  [ pc |-> "idle", ticketData |-> <<>>, key |-> <<>>, result |-> <<>>,
    signed |-> FALSE, signError |-> FALSE, hit |-> FALSE, found |-> <<>>,
    cacheTicketCalled |-> FALSE, prior |-> {} ]

NoVerifyCall ==
  [ pc |-> "idle", serializedPCD |-> <<>>, awaits |-> 0, result |-> <<>>,
    verifyInvoked |-> FALSE, prior |-> {} ]

\* the invocations that have settled
Settled == {c \in Calls : calls[c].pc \in {"done", "failed"}}

\* PersistentCacheService.getValue: the stored row, if any
getValue(key) == IF key \in DOMAIN cache THEN <<cache[key]>> ELSE <<>>

\* PersistentCacheService.setValue
setValue(key, value) == cache' = (key :> value) @@ cache

Init ==
  /\ now = 0
  /\ ticketsDB \in InitialTicketDBs
  /\ \E corrupt \in BOOLEAN :
       cache = IF corrupt
               THEN getTicketCacheKey(
                      ticketRowToTicketData(ticketsDB["t2"], "c_alice", 0))
                    :> CorruptCacheValue
               ELSE <<>>
  /\ pendingWrites = {}
  /\ calls = [c \in Calls |-> NoCall]
  /\ vcalls = [v \in VerifyCalls |-> NoVerifyCall]
  /\ promises = <<>>
  /\ verificationPromiseCache = <<>>
  /\ req = NoRequest
  /\ checkins = [k \in CheckinCalls |-> NoCheckin]
  /\ upload = NoUpload
  /\ InitRest

\* the values Date.now() can return: the clock never runs backwards
DateNow == {t \in now..MaxTime : t <= now + 1}

(***************************************************************************)
(* IssuanceService.getOrGenerateTicket.                                    *)
(***************************************************************************)
\* issueDevconnectPretixTicketPCDs maps one row of the user's tickets to
\* ITicketData and calls getOrGenerateTicket on it
StartIssue(c, commitment, t) ==
  /\ calls[c].pc = "idle"
  /\ \A d \in DirectCalls : d < c => calls[d].pc # "idle"
  /\ ticketsDB[t].email = UserEmail[commitment]
  /\ \E dateNow \in DateNow :
       /\ now' = dateNow
       /\ calls' = [calls EXCEPT ![c] =
            [NoCall EXCEPT !.pc = "lookup",
                           !.ticketData = ticketRowToTicketData(
                                            ticketsDB[t], commitment, dateNow),
                           !.prior = Settled]]
  /\ UNCHANGED <<ticketsDB, cache, pendingWrites>>
  /\ UNCHANGED <<verifyVars, req>>
  /\ UNCHANGED <<checkinVars, restVars>>

\* (mutant) getOrGenerateTicket that signs whatever the cache holds
GetCachedTicket_alwaysSigns(c) ==
  /\ calls[c].pc = "lookup"
  /\ LET key == getTicketCacheKey(calls[c].ticketData)
     IN  calls' = [calls EXCEPT ![c] =
                     [@ EXCEPT !.pc = "signing", !.key = key,
                               !.found = getValue(key), !.signed = TRUE]]
  /\ UNCHANGED <<now, ticketsDB, cache, pendingWrites>>
  /\ UNCHANGED <<verifyVars, req>>
  /\ UNCHANGED <<checkinVars, restVars>>

\* getOrGenerateTicket up to the call of ticketDataToTicketPCD:
\* getCachedTicket reads the cache; a stored value that deserializes is
\* returned, anything else is a miss and the signer is invoked
GetCachedTicket(c) ==
  /\ calls[c].pc = "lookup"
  /\ LET key == getTicketCacheKey(calls[c].ticketData)
         serializedTicket == getValue(key)
         parsedTicket == JsonParse(serializedTicket[1])
         isHit == /\ serializedTicket # <<>>
                  /\ CanDeserialize(parsedTicket.pcd)
     IN  calls' = [calls EXCEPT ![c] =
                     IF isHit
                     THEN [@ EXCEPT !.pc = "done", !.key = key, !.hit = TRUE,
                                    !.found = serializedTicket,
                                    !.result = <<deserialize(parsedTicket.pcd)>>]
                     ELSE [@ EXCEPT !.pc = "signing", !.key = key,
                                    !.found = serializedTicket,
                                    !.signed = TRUE]]
  /\ UNCHANGED <<now, ticketsDB, cache, pendingWrites>>
  /\ UNCHANGED <<verifyVars, req>>
  /\ UNCHANGED <<checkinVars, restVars>>

\* ticketDataToTicketPCD resolves: cacheTicket is called and not awaited,
\* and the generated ticket is returned
SignDone(c) ==
  /\ calls[c].pc = "signing"
  /\ LET generatedTicket ==
           ticketDataToTicketPCD(calls[c].ticketData, eddsaPrivateKey)
     IN  /\ calls' = [calls EXCEPT ![c] =
                        [@ EXCEPT !.pc = "done", !.cacheTicketCalled = TRUE,
                                  !.result = <<generatedTicket>>]]
         /\ pendingWrites' = pendingWrites \cup {generatedTicket}
  /\ UNCHANGED <<now, ticketsDB, cache>>
  /\ UNCHANGED <<verifyVars, req>>
  /\ UNCHANGED <<checkinVars, restVars>>

\* (mutant) a rejection of ticketDataToTicketPCD that is swallowed: the
\* call resolves and cacheTicket is still called
SignFail_swallowed(c) ==
  /\ calls[c].pc = "signing"
  /\ LET generatedTicket ==
           ticketDataToTicketPCD(calls[c].ticketData, eddsaPrivateKey)
     IN  /\ calls' = [calls EXCEPT ![c] =
                        [@ EXCEPT !.pc = "done", !.signError = TRUE,
                                  !.cacheTicketCalled = TRUE,
                                  !.result = <<generatedTicket>>]]
         /\ pendingWrites' = pendingWrites \cup {generatedTicket}
  /\ UNCHANGED <<now, ticketsDB, cache>>
  /\ UNCHANGED <<verifyVars, req>>
  /\ UNCHANGED <<checkinVars, restVars>>

\* ticketDataToTicketPCD rejects: getOrGenerateTicket rejects with it
SignFail(c) ==
  /\ calls[c].pc = "signing"
  /\ calls' = [calls EXCEPT ![c] = [@ EXCEPT !.pc = "failed", !.signError = TRUE]]
  /\ UNCHANGED <<now, ticketsDB, cache, pendingWrites>>
  /\ UNCHANGED <<verifyVars, req>>
  /\ UNCHANGED <<checkinVars, restVars>>

\* a cacheTicket call that was not awaited reaches setValue
cacheTicket(ticket) ==
  /\ ticket \in pendingWrites
  /\ setValue(getTicketCacheKey(ticket.claim.ticket), CacheValueOf(ticket))
  /\ pendingWrites' = pendingWrites \ {ticket}
  /\ UNCHANGED <<now, ticketsDB, calls>>
  /\ UNCHANGED <<verifyVars, req>>
  /\ UNCHANGED <<checkinVars, restVars>>

\* a cacheTicket call that was not awaited rejects (serialize or the store
\* fails); nothing is stored
cacheTicketFail(ticket) ==
  /\ ticket \in pendingWrites
  /\ pendingWrites' = pendingWrites \ {ticket}
  /\ UNCHANGED <<now, ticketsDB, cache, calls>>
  /\ UNCHANGED <<verifyVars, req>>
  /\ UNCHANGED <<checkinVars, restVars>>

\* the calls are made for the tickets of one attendee
NextIssue ==
  \/ \E c \in DirectCalls, t \in {"t1", "t2"} :
       StartIssue(c, "c_alice", t)
  \/ \E c \in Calls : GetCachedTicket(c)
  \/ \E c \in Calls : SignDone(c)
  \/ \E c \in Calls : SignFail(c)
  \/ \E ticket \in pendingWrites : cacheTicket(ticket)
  \/ \E ticket \in pendingWrites : cacheTicketFail(ticket)

SpecIssue == Init /\ [][NextIssue]_vars

(***************************************************************************)
(* IssuanceService.cachedVerifySignaturePCD.                               *)
(***************************************************************************)
\* the key of verificationPromiseCache: JSON.stringify(serializedPCD)
VerificationKey(serializedPCD) == JsonStringify(serializedPCD, <<"type", "pcd">>)

\* SemaphoreSignaturePCDPackage.deserialize returns (it throws otherwise)
CanDeserializeSignature(serializedPCD) == serializedPCD.pcd.wellFormed

\* what SemaphoreSignaturePCDPackage.verify resolves to
VerifySignature(serializedPCD) == serializedPCD.pcd.proofValid

\* the promises still referenced by a caller or by the cache
Reachable(p, vc, vpc) ==
  [i \in {j \in DOMAIN p :
            \/ \E v \in DOMAIN vc : vc[v].awaits = j
            \/ \E k \in DOMAIN vpc : vpc[k] = j} |-> p[i]]

\* a fresh promise
NewPromise ==
  CHOOSE n \in 1..(Cardinality(DOMAIN promises) + 1) :
    /\ n \notin DOMAIN promises
    /\ \A m \in 1..(n - 1) : m \in DOMAIN promises

SettledVerifyCalls == {v \in VerifyCalls : vcalls[v].pc \in {"done", "failed"}}

\* (mutant) the cache is not consulted
CachedVerifyStart_noCache(v, serializedPCD) ==
  /\ vcalls[v].pc = "idle"
  /\ vcalls' = [vcalls EXCEPT ![v] =
                  [NoVerifyCall EXCEPT !.pc = "deserializing",
                                       !.serializedPCD = serializedPCD,
                                       !.prior = SettledVerifyCalls]]
  /\ UNCHANGED <<promises, verificationPromiseCache>>

\* cachedVerifySignaturePCD up to its first await: the cache is read; a
\* cached promise is returned, otherwise the credential is deserialized
CachedVerifyStart(v, serializedPCD) ==
  /\ vcalls[v].pc = "idle"
  /\ LET key == VerificationKey(serializedPCD)
         isCached == key \in DOMAIN verificationPromiseCache
     IN  vcalls' = [vcalls EXCEPT ![v] =
           [NoVerifyCall EXCEPT
              !.pc = IF isCached THEN "awaiting" ELSE "deserializing",
              !.awaits = IF isCached THEN verificationPromiseCache[key] ELSE 0,
              !.serializedPCD = serializedPCD,
              !.prior = SettledVerifyCalls]]
  /\ UNCHANGED <<promises, verificationPromiseCache>>

\* a direct invocation of cachedVerifySignaturePCD
StartVerify(v, serializedPCD) ==
  /\ v \in DirectVerifyCalls
  /\ \A w \in DirectVerifyCalls : w < v => vcalls[w].pc # "idle"
  /\ CachedVerifyStart(v, serializedPCD)
  /\ UNCHANGED <<now, ticketsDB, cache, pendingWrites, calls, req>>
  /\ UNCHANGED <<checkinVars, restVars>>

\* deserialize resolved: verify is invoked, its promise is put in the cache
\* and returned
VerifyInvoke(v) ==
  /\ vcalls[v].pc = "deserializing"
  /\ CanDeserializeSignature(vcalls[v].serializedPCD)
  /\ LET key == VerificationKey(vcalls[v].serializedPCD)
         promise == NewPromise
     IN  /\ vcalls' = [vcalls EXCEPT ![v] =
                         [@ EXCEPT !.pc = "awaiting", !.awaits = promise,
                                   !.verifyInvoked = TRUE]]
         /\ promises' =
              Reachable((promise :> [key |-> key, state |-> "pending",
                                     serializedPCD |-> vcalls[v].serializedPCD])
                          @@ promises,
                        vcalls', (key :> promise) @@ verificationPromiseCache)
         /\ verificationPromiseCache' = (key :> promise) @@ verificationPromiseCache
  /\ UNCHANGED <<now, ticketsDB, cache, pendingWrites, calls, req>>
  /\ UNCHANGED <<checkinVars, restVars>>

\* deserialize threw: cachedVerifySignaturePCD rejects
VerifyDeserializeFail(v) ==
  /\ vcalls[v].pc = "deserializing"
  /\ ~CanDeserializeSignature(vcalls[v].serializedPCD)
  /\ vcalls' = [vcalls EXCEPT ![v] = [@ EXCEPT !.pc = "failed"]]
  /\ UNCHANGED <<promises, verificationPromiseCache>>
  /\ UNCHANGED <<now, ticketsDB, cache, pendingWrites, calls, req>>
  /\ UNCHANGED <<checkinVars, restVars>>

\* the promise of verify resolves with the verdict
PromiseResolve(p) ==
  /\ p \in DOMAIN promises
  /\ promises[p].state = "pending"
  /\ promises' = [promises EXCEPT ![p].state =
       IF VerifySignature(promises[p].serializedPCD) THEN "true" ELSE "false"]
  /\ UNCHANGED <<vcalls, verificationPromiseCache>>
  /\ UNCHANGED <<now, ticketsDB, cache, pendingWrites, calls, req>>
  /\ UNCHANGED <<checkinVars, restVars>>

\* the promise of verify rejects: its catch handler deletes the key
PromiseReject(p) ==
  /\ p \in DOMAIN promises
  /\ promises[p].state = "pending"
  /\ LET key == promises[p].key
         vpc == [k \in DOMAIN verificationPromiseCache \ {key} |->
                   verificationPromiseCache[k]]
     IN  /\ verificationPromiseCache' = vpc
         /\ promises' = Reachable([promises EXCEPT ![p].state = "rejected"],
                                  vcalls, vpc)
  /\ UNCHANGED vcalls
  /\ UNCHANGED <<now, ticketsDB, cache, pendingWrites, calls, req>>
  /\ UNCHANGED <<checkinVars, restVars>>

\* the caller of cachedVerifySignaturePCD gets the outcome of the promise
VerifyReturn(v) ==
  /\ vcalls[v].pc = "awaiting"
  /\ promises[vcalls[v].awaits].state # "pending"
  /\ LET state == promises[vcalls[v].awaits].state
     IN  vcalls' = [vcalls EXCEPT ![v] =
           [@ EXCEPT !.pc = IF state = "rejected" THEN "failed" ELSE "done",
                     !.result = IF state = "rejected" THEN <<>>
                                ELSE <<state = "true">>,
                     !.awaits = 0]]
  /\ promises' = Reachable(promises, vcalls', verificationPromiseCache)
  /\ UNCHANGED verificationPromiseCache
  /\ UNCHANGED <<now, ticketsDB, cache, pendingWrites, calls, req>>
  /\ UNCHANGED <<checkinVars, restVars>>

VerifySteps ==
  \/ \E v \in VerifyCalls : VerifyInvoke(v)
  \/ \E v \in VerifyCalls : VerifyDeserializeFail(v)
  \/ \E p \in DOMAIN promises : PromiseResolve(p)
  \/ \E p \in DOMAIN promises : PromiseReject(p)
  \/ \E v \in VerifyCalls : VerifyReturn(v)

NextVerify ==
  \/ \E v \in DirectVerifyCalls, serializedPCD \in Credentials :
       StartVerify(v, serializedPCD)
  \/ VerifySteps

SpecVerify == Init /\ [][NextVerify]_vars

\* two invocations that were in flight at the same time
ConcurrentVerify(v1, v2) ==
  /\ v1 # v2
  /\ vcalls[v1].pc # "idle" /\ vcalls[v2].pc # "idle"
  /\ v1 \notin vcalls[v2].prior /\ v2 \notin vcalls[v1].prior

\* C6: of the concurrent cachedVerifySignaturePCD calls for one serialized
\* credential, at most one invokes SemaphoreSignaturePCDPackage.verify
C6_ConcurrentVerifyOnce ==
  \A v1, v2 \in VerifyCalls :
    ( /\ ConcurrentVerify(v1, v2)
      /\ vcalls[v1].serializedPCD = vcalls[v2].serializedPCD )
    => ~(vcalls[v1].verifyInvoked /\ vcalls[v2].verifyInvoked)

(***************************************************************************)
(* The feed handlers IssuanceService registers with the FeedHost.          *)
(***************************************************************************)
FeedIds == {"Devconnect", "Frogs", "Email", "Zuzalu_23", "Zuconnect_23"}
\* the feeds whose artifacts are tickets made by getOrGenerateTicket
TicketFeeds == {"Devconnect", "Zuzalu_23", "Zuconnect_23"}

\* PCDActionType
DeleteFolder == "DeleteFolder_action"
ReplaceInFolder == "ReplaceInFolder_action"
AppendToFolder == "AppendToFolder_action"

\* joinPath: a folder is the sequence of the names on its path
joinPath(parent, name) == Append(parent, name)

DeleteFolderAction(folder, recursive) ==
  [type |-> DeleteFolder, folder |-> folder, recursive |-> recursive, pcds |-> <<>>]
ReplaceInFolderAction(folder, pcds) ==
  [type |-> ReplaceInFolder, folder |-> folder, recursive |-> FALSE, pcds |-> pcds]
AppendToFolderAction(folder, pcds) ==
  [type |-> AppendToFolder, folder |-> folder, recursive |-> FALSE, pcds |-> pcds]

RECURSIVE Flatten(_)
Flatten(seqs) == IF seqs = <<>> THEN <<>> ELSE Head(seqs) \o Flatten(Tail(seqs))

\* the keys of _.groupBy(pcds, eventName), in order of first appearance
RECURSIVE EventNames(_)
EventNames(pcds) ==
  IF pcds = <<>> THEN <<>>
  ELSE LET rest == EventNames(SubSeq(pcds, 1, Len(pcds) - 1))
           name == pcds[Len(pcds)].claim.ticket.eventName
       IN  IF \E i \in 1..Len(rest) : rest[i] = name THEN rest
           ELSE Append(rest, name)

\* the tickets of one group, serialized
SerializedGroup(pcds, eventName) ==
  LET inGroup(pcd) == pcd.claim.ticket.eventName = eventName
      group == SelectSeq(pcds, inGroup)
  IN  [i \in 1..Len(group) |-> serialize(group[i])]

\* EmailPCDPackage.prove and serialize
EmailPCD(email, semaphoreId, privateKey) ==
  [ id |-> <<"attested-email-", email>>,
    claim |-> [emailAddress |-> email, semaphoreId |-> semaphoreId],
    proof |-> [signedWith |-> privateKey] ]
SerializeEmailPCD(pcd) ==
  [ type |-> "email-pcd",
    pcd |-> << <<"id", pcd.id>>, <<"claim", pcd.claim>>, <<"proof", pcd.proof>> >> ]

\* issueFrogPCDs: the serialized RSAImagePCD of one of the frog images
frogPaths == <<"frog.jpeg", "frog2.jpeg", "frog3.jpeg", "frog4.jpeg">>
FrogPCD(path, id) ==
  [ type |-> "rsa-image-pcd",
    pcd |-> << <<"id", id>>, <<"url", <<imageServerUrl, path>> >>,
               <<"title", <<"frog ", id>> >> >> ]

\* (mutant) the Devconnect folder is deleted without its subfolders
DevconnectDeletes_notRecursive ==
  << DeleteFolderAction(<<"SBC SRW">>, FALSE),
     DeleteFolderAction(<<"Devconnect">>, FALSE) >>

\* the DeleteFolder actions the Devconnect handler pushes
DevconnectDeletes ==
  << DeleteFolderAction(<<"SBC SRW">>, FALSE),
     DeleteFolderAction(<<"Devconnect">>, TRUE) >>

\* what a handler pushes onto its action list once the artifacts are
\* issued, one entry per push; an entry that awaits the serialization of
\* artifacts can throw instead of pushing
PushStages(feed, pcds) ==
  LET names == EventNames(pcds)
      isSRW(n) == n = "SBC SRW"
      notSRW(n) == n # "SBC SRW"
      devconnect == SelectSeq(names, notSRW)
      srw == SelectSeq(names, isSRW)
      serializedTickets == [i \in 1..Len(pcds) |-> serialize(pcds[i])]
      serializedEmails == [i \in 1..Len(pcds) |-> SerializeEmailPCD(pcds[i])]
      sync(actions) == [actions |-> actions, serializes |-> FALSE]
      awaited(actions, n) == [actions |-> actions, serializes |-> n > 0]
  IN  CASE feed = "Devconnect" ->
             << sync(DevconnectDeletes),
                awaited([i \in 1..Len(devconnect) |->
                           ReplaceInFolderAction(
                             joinPath(<<"Devconnect">>, devconnect[i]),
                             SerializedGroup(pcds, devconnect[i]))],
                        Len(devconnect)),
                awaited([i \in 1..Len(srw) |->
                           ReplaceInFolderAction(<<"SBC SRW">>,
                                                 SerializedGroup(pcds, srw[i]))],
                        Len(srw)) >>
        [] feed = "Email" ->
             << sync(<<DeleteFolderAction(<<"Email">>, FALSE)>>),
                awaited(<<ReplaceInFolderAction(<<"Email">>, serializedEmails)>>,
                        Len(pcds)) >>
        [] feed = "Zuzalu_23" ->
             << sync(<<DeleteFolderAction(<<"Zuzalu '23">>, FALSE)>>),
                awaited(<<ReplaceInFolderAction(<<"Zuzalu '23">>, serializedTickets)>>,
                        Len(pcds)) >>
        [] feed = "Zuconnect_23" ->
             << sync(<<DeleteFolderAction(<<"Zuconnect">>, FALSE)>>),
                sync(<<DeleteFolderAction(<<"ZuConnect">>, FALSE)>>),
                awaited(<<ReplaceInFolderAction(<<"ZuConnect">>, serializedTickets)>>,
                        Len(pcds)) >>
        [] OTHER ->
             << sync(<<AppendToFolderAction(<<"Frogs">>, pcds)>>) >>

\* the action list when the push of stage failAt throws (0: none does)
BuildActions(stages, failAt) ==
  LET kept == IF failAt = 0 THEN Len(stages) ELSE failAt - 1
  IN  Flatten([i \in 1..kept |-> stages[i].actions])

\* the ITicketData issueZuzaluTicketPCDs builds
ZuzaluTicketData(user, dateNow) ==
  [ attendeeSemaphoreId |-> user.commitment,
    eventName |-> "Zuzalu (March - May 2023)",
    checkerEmail |-> Undefined,
    ticketId |-> user.uuid,
    ticketName |-> user.role,
    attendeeName |-> user.name,
    attendeeEmail |-> user.email,
    eventId |-> "zuzalu-23",
    productId |-> "zuzalu-" \o user.role,
    timestampSigned |-> dateNow,
    timestampConsumed |-> 0,
    isConsumed |-> FALSE,
    isRevoked |-> FALSE,
    ticketCategory |-> TicketCategoryZuzalu,
    imageUrl |-> imageServerUrl \o "/images/zuzalu/zuzalu.png",
    imageAltText |-> "Zuzalu logo" ]

\* the ITicketData issueZuconnectTicketPCDs builds
ZuconnectTicketData(user, ticket, dateNow) ==
  [ attendeeSemaphoreId |-> user.commitment,
    eventName |-> "Zuconnect October-November '23",
    checkerEmail |-> Undefined,
    ticketId |-> ticket.id,
    ticketName |-> "name-of-" \o ticket.product_id,
    attendeeName |-> ticket.attendee_name,
    attendeeEmail |-> ticket.attendee_email,
    eventId |-> "event-of-" \o ticket.product_id,
    productId |-> ticket.product_id,
    timestampSigned |-> dateNow,
    timestampConsumed |-> 0,
    isConsumed |-> FALSE,
    isRevoked |-> FALSE,
    ticketCategory |-> TicketCategoryZuConnect ]

\* (mutant) a Devconnect feed that reads the rows of the other emails
TicketsToIssue_othersRows(feed, user, dateNow) ==
  LET others(t) == ticketsDB[t].email # user.email
      rows == SelectSeq(TicketOrder, others)
      zuzalu == fetchLoggedInZuzaluUser(user.uuid)
      zuconnect == fetchZuconnectTicketsByEmail(user.email)
  IN  CASE feed = "Devconnect" ->
             [i \in 1..Len(rows) |->
                ticketRowToTicketData(ticketsDB[rows[i]], user.commitment, dateNow)]
        [] feed = "Zuzalu_23" ->
             [i \in 1..Len(zuzalu) |-> ZuzaluTicketData(zuzalu[i], dateNow)]
        [] OTHER ->
             [i \in 1..Len(zuconnect) |->
                ZuconnectTicketData(user, zuconnect[i], dateNow)]

\* the ITicketData a ticket feed issues for the user, in order
TicketsToIssue(feed, user, dateNow) ==
  LET mine(t) == ticketsDB[t].email = user.email
      rows == SelectSeq(TicketOrder, mine)
      zuzalu == fetchLoggedInZuzaluUser(user.uuid)
      zuconnect == fetchZuconnectTicketsByEmail(user.email)
  IN  CASE feed = "Devconnect" ->
             [i \in 1..Len(rows) |->
                ticketRowToTicketData(ticketsDB[rows[i]], user.commitment, dateNow)]
        [] feed = "Zuzalu_23" ->
             [i \in 1..Len(zuzalu) |-> ZuzaluTicketData(zuzalu[i], dateNow)]
        [] OTHER ->
             [i \in 1..Len(zuconnect) |->
                ZuconnectTicketData(user, zuconnect[i], dateNow)]

\* verifyFeedCredential returns the credential when the memoized verification
\* resolved to true and throws otherwise
verifyFeedCredential(verified) == verified = <<TRUE>>

\* the handler returns { actions }
Respond(actions, failed) ==
  req' = [req EXCEPT !.pc = "responded", !.actions = actions,
                     !.failedAfterCheck = failed]

\* a poll request reaches its handler: without a credential the Devconnect,
\* Frogs and Email handlers throw inside their try block, the Zuzalu and
\* Zuconnect handlers before it; with one, verifyFeedCredential hands the
\* credential to cachedVerifySignaturePCD
FeedPoll(feed, pcd) ==
  /\ req.pc = "idle"
  /\ req.served < MaxRequests
  /\ IF pcd = <<>>
     THEN /\ req' = IF feed \in {"Devconnect", "Frogs", "Email"}
                    THEN [req EXCEPT !.pc = "responded", !.feed = feed]
                    ELSE [req EXCEPT !.pc = "rejected", !.feed = feed,
                                           !.error = "Missing credential"]
          /\ UNCHANGED verifyVars
     ELSE /\ req' = [req EXCEPT
                      !.pc = "verifying", !.feed = feed, !.pcd = pcd,
                      !.checkedIn =
                        {checkins[k].ticketId : k \in
                           {j \in CheckinCalls :
                              /\ checkins[j].result # <<>>
                              /\ checkins[j].result[1].success}}]
          /\ CachedVerifyStart(FeedVerifyCall, pcd[1])
  /\ UNCHANGED <<now, ticketsDB, cache, pendingWrites, calls>>
  /\ UNCHANGED <<checkinVars, restVars>>

\* verifyFeedCredential returned: the issue function of the feed starts.
\* Ticket feeds call getOrGenerateTicket, the Devconnect feed for all its
\* tickets at once, the others for one ticket after the other
FeedIssue ==
  LET commitment == req.pcd[1].pcd.identityCommitment
      found == fetchUserByCommitment(commitment)
      user == found[1]
  IN  \E dateNow \in DateNow :
        /\ now' = dateNow
        /\ IF req.feed \in TicketFeeds
           THEN LET tickets == IF found = <<>> THEN <<>>
                               ELSE TicketsToIssue(req.feed, user, dateNow)
                    started == IF req.feed = "Devconnect" THEN Len(tickets)
                               ELSE IF tickets = <<>> THEN 0 ELSE 1
                IN  /\ req' = [req EXCEPT !.pc = "issuing", !.verified = TRUE,
                                          !.tickets = tickets]
                    /\ calls' = [c \in Calls |->
                         IF c \in FeedCalls /\ c - MaxCalls <= started
                         THEN [NoCall EXCEPT !.pc = "lookup",
                                             !.ticketData = tickets[c - MaxCalls],
                                             !.prior = Settled]
                         ELSE calls[c]]
           ELSE /\ UNCHANGED calls
                /\ \E proved \in BOOLEAN :
                     IF ~proved /\ (req.feed = "Frogs" \/ found # <<>>)
                     THEN req' = [req EXCEPT !.pc = "responded", !.verified = TRUE,
                                             !.failedAfterCheck = TRUE]
                     ELSE /\ proved
                          /\ \E path \in 1..Len(frogPaths) :
                               /\ req.feed # "Frogs" => path = 1
                               /\ req' = [req EXCEPT
                                    !.pc = "issuing", !.verified = TRUE,
                                    !.issued =
                                      IF req.feed = "Frogs"
                                      THEN <<FrogPCD(frogPaths[path], dateNow)>>
                                      ELSE IF found = <<>> THEN <<>>
                                      ELSE <<EmailPCD(user.email, user.commitment,
                                                      eddsaPrivateKey)>>]

\* (mutant) the handler goes on to issue whatever verifyFeedCredential did
FeedVerified_ignoresVerdict ==
  /\ req.pc = "verifying"
  /\ vcalls[FeedVerifyCall].pc \in {"done", "failed"}
  /\ FeedIssue
  /\ UNCHANGED <<ticketsDB, cache, pendingWrites>>
  /\ UNCHANGED verifyVars
  /\ UNCHANGED <<checkinVars, restVars>>

\* cachedVerifySignaturePCD settled: verifyFeedCredential throws unless the
\* signature verified, and the handler's catch block leaves the action list
\* as it is; otherwise the handler goes on to issue
FeedVerified ==
  /\ req.pc = "verifying"
  /\ vcalls[FeedVerifyCall].pc \in {"done", "failed"}
  /\ IF verifyFeedCredential(vcalls[FeedVerifyCall].result)
     THEN FeedIssue
     ELSE /\ Respond(<<>>, TRUE)
          /\ UNCHANGED <<now, calls>>
  /\ UNCHANGED <<ticketsDB, cache, pendingWrites>>
  /\ UNCHANGED verifyVars
  /\ UNCHANGED <<checkinVars, restVars>>

\* the number of getOrGenerateTicket calls the request has started
Started == Cardinality({c \in FeedCalls : calls[c].pc # "idle"})

\* issueZuzaluTicketPCDs and issueZuconnectTicketPCDs await one ticket and
\* call getOrGenerateTicket for the next
FeedIssueNext ==
  /\ req.pc = "issuing"
  /\ Started < Len(req.tickets)
  /\ \A c \in FeedCalls : calls[c].pc \in {"idle", "done"}
  /\ \E dateNow \in DateNow :
       /\ now' = dateNow
       /\ calls' = [calls EXCEPT ![FeedCall(Started + 1)] =
            [NoCall EXCEPT !.pc = "lookup",
                           !.ticketData = [req.tickets[Started + 1] EXCEPT
                                             !.timestampSigned = dateNow],
                           !.prior = Settled]]
  /\ UNCHANGED <<ticketsDB, cache, pendingWrites, req>>
  /\ UNCHANGED verifyVars
  /\ UNCHANGED <<checkinVars, restVars>>

\* a getOrGenerateTicket call rejected: the issue function rejects and the
\* catch block leaves the action list empty
FeedIssueFailed ==
  /\ req.pc = "issuing"
  /\ \E c \in FeedCalls : calls[c].pc = "failed"
  /\ Respond(<<>>, TRUE)
  /\ UNCHANGED <<now, ticketsDB, cache, pendingWrites, calls>>
  /\ UNCHANGED verifyVars
  /\ UNCHANGED <<checkinVars, restVars>>

\* (mutant) a handler that returns at once when nothing was issued
FeedRespond_skipsEmpty(failAt) ==
  /\ req.pc = "issuing"
  /\ Started = Len(req.tickets)
  /\ \A c \in FeedCalls : calls[c].pc \in {"idle", "done"}
  /\ LET issued == IF req.feed \in TicketFeeds
                   THEN [i \in 1..Len(req.tickets) |-> calls[FeedCall(i)].result[1]]
                   ELSE req.issued
         stages == IF issued = <<>> THEN <<>>
                   ELSE PushStages(req.feed, issued)
     IN  /\ failAt \in 0..Len(stages)
         /\ failAt > 0 => stages[failAt].serializes
         /\ req' = [req EXCEPT !.pc = "responded", !.issued = issued,
                               !.actions = BuildActions(stages, failAt),
                               !.failedAfterCheck = failAt > 0]
  /\ UNCHANGED <<now, ticketsDB, cache, pendingWrites, calls>>
  /\ UNCHANGED verifyVars
  /\ UNCHANGED <<checkinVars, restVars>>

\* the artifacts are issued: the handler pushes its actions, serializing the
\* artifacts; a serialization that throws ends the pushes
FeedRespond(failAt) ==
  /\ req.pc = "issuing"
  /\ Started = Len(req.tickets)
  /\ \A c \in FeedCalls : calls[c].pc \in {"idle", "done"}
  /\ LET issued == IF req.feed \in TicketFeeds
                   THEN [i \in 1..Len(req.tickets) |-> calls[FeedCall(i)].result[1]]
                   ELSE req.issued
         stages == PushStages(req.feed, issued)
     IN  /\ failAt \in 0..Len(stages)
         /\ failAt > 0 => stages[failAt].serializes
         /\ req' = [req EXCEPT !.pc = "responded", !.issued = issued,
                               !.actions = BuildActions(stages, failAt),
                               !.failedAfterCheck = failAt > 0]
  /\ UNCHANGED <<now, ticketsDB, cache, pendingWrites, calls>>
  /\ UNCHANGED verifyVars
  /\ UNCHANGED <<checkinVars, restVars>>

\* the response is sent and the calls of the request have settled
FeedFinish ==
  /\ req.pc \in {"responded", "rejected"}
  /\ \A c \in FeedCalls : calls[c].pc \in {"idle", "done", "failed"}
  /\ vcalls[FeedVerifyCall].pc \in {"idle", "done", "failed"}
  /\ req' = [NoRequest EXCEPT !.served = req.served + 1]
  /\ calls' = [c \in Calls |-> IF c \in FeedCalls THEN NoCall ELSE calls[c]]
  /\ vcalls' = [vcalls EXCEPT ![FeedVerifyCall] = NoVerifyCall]
  /\ UNCHANGED <<now, ticketsDB, cache, pendingWrites, promises,
                 verificationPromiseCache>>
  /\ UNCHANGED <<checkinVars, restVars>>

NextFeed ==
  \/ \E feed \in FeedIds, pcd \in {<<>>} \cup {<<c>> : c \in Credentials} :
       FeedPoll(feed, pcd)
  \/ FeedVerified
  \/ FeedIssueNext
  \/ FeedIssueFailed
  \/ \E failAt \in 0..3 : FeedRespond(failAt)
  \/ FeedFinish
  \/ VerifySteps
  \/ \E c \in Calls : GetCachedTicket(c)
  \/ \E c \in Calls : SignDone(c)
  \/ \E c \in Calls : SignFail(c)
  \/ \E ticket \in pendingWrites : cacheTicket(ticket)
  \/ \E ticket \in pendingWrites : cacheTicketFail(ticket)

SpecFeed == Init /\ [][NextFeed]_vars

(***************************************************************************)
(* Online check-in: IssuanceService.handleDevconnectCheckInByIdRequest.    *)
(***************************************************************************)
\* fetchDevconnectPretixTicketByTicketId: the row, if any
fetchDevconnectPretixTicketByTicketId(ticketId) ==
  IF ticketId \in DOMAIN ticketsDB THEN <<ticketsDB[ticketId]>> ELSE <<>>

\* CheckTicketByIdResult / CheckTicketInByIdResult
CheckSuccess == [success |-> TRUE, thrown |-> FALSE, name |-> "", checker |-> ""]
CheckError(name) ==
  [success |-> FALSE, thrown |-> FALSE, name |-> name, checker |-> ""]
\* throw new PCDHTTPError(500, "failed to check in")
ThrownError ==
  [success |-> FALSE, thrown |-> TRUE, name |-> "PCDHTTPError", checker |-> ""]

\* whether the checker holds a superuser permission for the ticket's event
relevantSuperUserPermission(checker, ticketInDb) ==
  LET perms == fetchDevconnectSuperusersForEmail(checker.email)
  IN  \E i \in 1..Len(perms) :
        perms[i].pretix_events_config_id = ticketInDb.pretix_events_config_id

\* (mutant) a check that leaves out the superuser permission of the event
checkDevconnectTicketById_anyUser(ticketId, checkerProof, storeFails) ==
  LET found == fetchDevconnectPretixTicketByTicketId(ticketId)
      ticketInDb == found[1]
      checker == fetchUserByCommitment(checkerProof.pcd.identityCommitment)
  IN  IF storeFails THEN CheckError("ServerError")
      ELSE IF found = <<>> THEN CheckError("InvalidTicket")
      ELSE IF ticketInDb.is_deleted THEN CheckError("TicketRevoked")
      ELSE IF ticketInDb.is_consumed
        THEN [CheckError("AlreadyCheckedIn") EXCEPT !.checker = ticketInDb.checker]
      ELSE IF \/ ~VerifySignature(checkerProof)
              \/ checkerProof.pcd.signedMessage # ISSUANCE_STRING
        THEN CheckError("NotSuperuser")
      ELSE IF checker = <<>> THEN CheckError("NotSuperuser")
      ELSE CheckSuccess

\* checkDevconnectTicketById: the checks in the order of the code; an
\* exception of a query or of verify is caught and reported as ServerError
checkDevconnectTicketById(ticketId, checkerProof, storeFails) ==
  LET found == fetchDevconnectPretixTicketByTicketId(ticketId)
      ticketInDb == found[1]
      checker == fetchUserByCommitment(checkerProof.pcd.identityCommitment)
  IN  IF storeFails THEN CheckError("ServerError")
      ELSE IF found = <<>> THEN CheckError("InvalidTicket")
      ELSE IF ticketInDb.is_deleted THEN CheckError("TicketRevoked")
      ELSE IF ticketInDb.is_consumed
        THEN [CheckError("AlreadyCheckedIn") EXCEPT !.checker = ticketInDb.checker]
      ELSE IF \/ ~VerifySignature(checkerProof)
              \/ checkerProof.pcd.signedMessage # ISSUANCE_STRING
        THEN CheckError("NotSuperuser")
      ELSE IF checker = <<>> THEN CheckError("NotSuperuser")
      ELSE IF ~relevantSuperUserPermission(checker[1], ticketInDb)
        THEN CheckError("NotSuperuser")
      ELSE CheckSuccess

\* (mutant) an update that does not test the row's state
consumeDevconnectPretixTicket_unconditional(db, id, checkerEmail, timestamp) ==
  IF id \in DOMAIN db
  THEN [db EXCEPT ![id] = [@ EXCEPT !.is_consumed = TRUE,
                                    !.checker = checkerEmail,
                                    !.zupass_checkin_timestamp = timestamp]]
  ELSE db

\* consumeDevconnectPretixTicket: one UPDATE statement that marks the row
\* consumed if it is there, not deleted and not consumed yet; the table after
\* it (the call returns whether a row was updated)
consumeDevconnectPretixTicket(db, id, checkerEmail, timestamp) ==
  IF id \in DOMAIN db /\ ~db[id].is_deleted /\ ~db[id].is_consumed
  THEN [db EXCEPT ![id] = [@ EXCEPT !.is_consumed = TRUE,
                                    !.checker = checkerEmail,
                                    !.zupass_checkin_timestamp = timestamp]]
  ELSE db

SettledCheckins == {k \in CheckinCalls : checkins[k].result # <<>>}

\* the handler up to its call of checkDevconnectTicketById: it fetches the
\* ticket and deserializes the checker proof; an exception of deserialize
\* goes to the catch block, which throws a PCDHTTPError
CheckinStart(k, checkerProof, ticketId) ==
  /\ checkins[k].pc = "idle"
  /\ \A j \in CheckinCalls : j < k => checkins[j].pc # "idle"
  /\ checkins' = [checkins EXCEPT ![k] =
       [NoCheckin EXCEPT
          !.checkerProof = <<checkerProof>>, !.ticketId = ticketId,
          !.prior = SettledCheckins,
          !.pc = IF CanDeserializeSignature(checkerProof)
                 THEN "checking" ELSE "done",
          !.result = IF CanDeserializeSignature(checkerProof)
                     THEN <<>> ELSE <<ThrownError>>]]
  /\ UNCHANGED <<now, ticketsDB, cache, pendingWrites, calls, req, upload>>
  /\ UNCHANGED restVars
  /\ UNCHANGED verifyVars

\* checkDevconnectTicketById returns: a failure is returned as it is
CheckinCheck(k, storeFails) ==
  /\ checkins[k].pc = "checking"
  /\ LET check == checkDevconnectTicketById(checkins[k].ticketId,
                                            checkins[k].checkerProof[1], storeFails)
     IN  checkins' = [checkins EXCEPT ![k] =
           [@ EXCEPT !.pc = IF check.success THEN "consuming" ELSE "done",
                     !.checked = IF storeFails THEN <<>>
                                 ELSE <<fetchDevconnectPretixTicketByTicketId(
                                          checkins[k].ticketId)>>,
                     !.result = IF check.success THEN <<>> ELSE <<check>>]]
  /\ UNCHANGED <<now, ticketsDB, cache, pendingWrites, calls, req, upload>>
  /\ UNCHANGED restVars
  /\ UNCHANGED verifyVars

\* the checker's row is fetched again and consumeDevconnectPretixTicket is
\* called: success if it updated the row, ServerError if it did not, and a
\* PCDHTTPError if a query threw
CheckinConsume(k, storeFails) ==
  /\ checkins[k].pc = "consuming"
  /\ LET checker == fetchUserByCommitment(
                      checkins[k].checkerProof[1].pcd.identityCommitment)[1]
     IN  \E dateNow \in DateNow :
           LET after == IF storeFails THEN ticketsDB
                        ELSE consumeDevconnectPretixTicket(
                               ticketsDB, checkins[k].ticketId, checker.email,
                               dateNow)
               successfullyConsumed == after # ticketsDB
           IN  /\ now' = dateNow
               /\ ticketsDB' = after
               /\ checkins' = [checkins EXCEPT ![k] =
                    [@ EXCEPT !.pc = "done",
                              !.consumed = successfullyConsumed,
                              !.result =
                                IF storeFails THEN <<ThrownError>>
                                ELSE IF successfullyConsumed THEN <<CheckSuccess>>
                                ELSE <<CheckError("ServerError")>>]]
  /\ UNCHANGED <<cache, pendingWrites, calls, req, upload>>
  /\ UNCHANGED restVars
  /\ UNCHANGED verifyVars

CheckinSteps ==
  \/ \E k \in CheckinCalls, storeFails \in BOOLEAN : CheckinCheck(k, storeFails)
  \/ \E k \in CheckinCalls, storeFails \in BOOLEAN : CheckinConsume(k, storeFails)

NextCheckin ==
  \/ \E k \in CheckinCalls, checkerProof \in CheckerProofs,
        ticketId \in RequestedTicketIds :
       CheckinStart(k, checkerProof, ticketId)
  \/ CheckinSteps

InitCheckin ==
  /\ now = 0
  /\ ticketsDB \in CheckinTicketDBs
  /\ cache = <<>>
  /\ pendingWrites = {}
  /\ calls = [c \in Calls |-> NoCall]
  /\ vcalls = [v \in VerifyCalls |-> NoVerifyCall]
  /\ promises = <<>>
  /\ verificationPromiseCache = <<>>
  /\ req = NoRequest
  /\ checkins = [k \in CheckinCalls |-> NoCheckin]
  /\ upload = NoUpload
  /\ InitRest

SpecCheckin == InitCheckin /\ [][NextCheckin]_vars

(***************************************************************************)
(* Offline check-in upload: IssuanceService.handleUploadOfflineCheckins.   *)
(***************************************************************************)
\* the id lists of an upload: any ids, repeated or not, in any order
Batches ==
  UNION {[1..n -> RequestedTicketIds] : n \in 0..MaxBatch}

UploadSuccess == [success |-> TRUE, status |-> 200, error |-> ""]
\* a PCDHTTPError the handler throws, or an exception that leaves it
UploadError(status, message) ==
  [success |-> FALSE, status |-> status, error |-> message]

\* the rules of the online check-in applied to one id: the row is there, is
\* neither deleted nor consumed, and the checker is a user with a superuser
\* permission for the event of the row
offlineCheckable(db, checkerCommitment, id) ==
  LET checker == fetchUserByCommitment(checkerCommitment)
  IN  /\ id \in DOMAIN db
      /\ ~db[id].is_deleted
      /\ ~db[id].is_consumed
      /\ checker # <<>>
      /\ relevantSuperUserPermission(checker[1], db[id])

\* what checkInOfflineTickets does with one id: the table after it and the
\* row it found
checkInOfflineTicket(db, checkerCommitment, id, timestamp) ==
  [ db |-> IF offlineCheckable(db, checkerCommitment, id)
           THEN consumeDevconnectPretixTicket(
                  db, id, fetchUserByCommitment(checkerCommitment)[1].email,
                  timestamp)
           ELSE db,
    entry |-> [ id |-> id,
                before |-> IF id \in DOMAIN db THEN <<db[id]>> ELSE <<>> ] ]

\* (mutant) the first id that cannot be checked in ends the batch
RECURSIVE checkInOfflineTickets_stopsAtInvalid(_, _, _, _)
checkInOfflineTickets_stopsAtInvalid(db, checkerCommitment, ids, timestamp) ==
  IF ids = <<>> THEN [db |-> db, log |-> <<>>]
  ELSE LET one == checkInOfflineTicket(db, checkerCommitment, Head(ids),
                                       timestamp)
           rest == checkInOfflineTickets_stopsAtInvalid(
                     one.db,
                     IF one.db = db THEN "nobody" ELSE checkerCommitment,
                     Tail(ids), timestamp)
       IN  [db |-> rest.db, log |-> <<one.entry>> \o rest.log]

\* checkInOfflineTickets: the ids in order, each checked in if it can be and
\* skipped otherwise; the table after the batch and the log of the rows found
RECURSIVE checkInOfflineTickets(_, _, _, _)
checkInOfflineTickets(db, checkerCommitment, ids, timestamp) ==
  IF ids = <<>> THEN [db |-> db, log |-> <<>>]
  ELSE LET one == checkInOfflineTicket(db, checkerCommitment, Head(ids),
                                       timestamp)
           rest == checkInOfflineTickets(one.db, checkerCommitment, Tail(ids),
                                         timestamp)
       IN  [db |-> rest.db, log |-> <<one.entry>> \o rest.log]

\* the handler up to its second await: the checker proof is deserialized
\* (an exception leaves the handler) and handed to cachedVerifySignaturePCD
UploadStart(checkerProof, ids) ==
  /\ upload.pc = "idle"
  /\ upload.served < MaxRequests
  /\ IF CanDeserializeSignature(checkerProof)
     THEN /\ upload' = [upload EXCEPT !.pc = "verifying",
                                      !.checkerProof = <<checkerProof>>,
                                      !.ids = ids]
          /\ CachedVerifyStart(UploadVerifyCall, checkerProof)
     ELSE /\ upload' = [upload EXCEPT
                          !.pc = "done",
                          !.checkerProof = <<checkerProof>>, !.ids = ids,
                          !.result = <<UploadError(500, "deserialize threw")>>]
          /\ UNCHANGED verifyVars
  /\ UNCHANGED <<now, ticketsDB, cache, pendingWrites, calls, req, checkins>>
  /\ UNCHANGED restVars

\* cachedVerifySignaturePCD returned: the handler throws
\* PCDHTTPError(403, "invalid proof") unless the proof is valid
UploadVerified ==
  /\ upload.pc = "verifying"
  /\ vcalls[UploadVerifyCall].pc \in {"done", "failed"}
  /\ upload' =
       IF vcalls[UploadVerifyCall].pc = "failed"
       THEN [upload EXCEPT !.pc = "done",
                           !.result = <<UploadError(500, "verify threw")>>]
       ELSE IF ~vcalls[UploadVerifyCall].result[1]
       THEN [upload EXCEPT !.pc = "done",
                           !.result = <<UploadError(403, "invalid proof")>>]
       ELSE [upload EXCEPT !.pc = "checkingIn"]
  /\ UNCHANGED <<now, ticketsDB, cache, pendingWrites, calls, req, checkins>>
  /\ UNCHANGED restVars
  /\ UNCHANGED verifyVars

\* checkInOfflineTickets returned and the handler responds with {}
UploadCheckIn ==
  /\ upload.pc = "checkingIn"
  /\ \E dateNow \in DateNow :
       LET done == checkInOfflineTickets(
                     ticketsDB, upload.checkerProof[1].pcd.identityCommitment,
                     upload.ids, dateNow)
       IN  /\ now' = dateNow
           /\ ticketsDB' = done.db
           /\ upload' = [upload EXCEPT !.pc = "done", !.log = done.log,
                                       !.result = <<UploadSuccess>>]
  /\ UNCHANGED <<cache, pendingWrites, calls, req, checkins>>
  /\ UNCHANGED restVars
  /\ UNCHANGED verifyVars

\* the request is over; the next upload can be served
UploadFinish ==
  /\ upload.pc = "done"
  /\ upload' = [NoUpload EXCEPT !.served = upload.served + 1]
  /\ vcalls' = [vcalls EXCEPT ![UploadVerifyCall] = NoVerifyCall]
  /\ promises' = Reachable(promises, vcalls', verificationPromiseCache)
  /\ UNCHANGED <<now, ticketsDB, cache, pendingWrites, calls, req, checkins,
                 verificationPromiseCache>>
  /\ UNCHANGED restVars

\* the proof handed to cachedVerifySignaturePCD is one the handler has
\* deserialized, so the deserialization inside it returns
NextUpload ==
  \/ \E checkerProof \in CheckerProofs, ids \in Batches :
       UploadStart(checkerProof, ids)
  \/ UploadVerified
  \/ UploadCheckIn
  \/ UploadFinish
  \/ VerifyInvoke(UploadVerifyCall)
  \/ \E p \in DOMAIN promises : PromiseResolve(p)
  \/ \E p \in DOMAIN promises : PromiseReject(p)
  \/ VerifyReturn(UploadVerifyCall)

SpecUpload == InitCheckin /\ [][NextUpload]_vars

(***************************************************************************)
(* Check-in and the Devconnect feed together: a checker checks tickets in  *)
(* while their holder polls the feed.                                      *)
(***************************************************************************)
\* the service after a poll by alice, before any check-in: no ticket is
\* consumed, and the cache holds the artifact of t1 signed for that poll
InitCheckinFeed ==
  /\ now = 0
  /\ ticketsDB \in {db \in InitialTicketDBs : ~db["t1"].is_consumed}
  /\ LET ticketData == ticketRowToTicketData(ticketsDB["t1"], "c_alice", 0)
     IN  cache = getTicketCacheKey(ticketData) :>
                   CacheValueOf(ticketDataToTicketPCD(ticketData,
                                                      eddsaPrivateKey))
  /\ pendingWrites = {}
  /\ calls = [c \in Calls |-> NoCall]
  /\ vcalls = [v \in VerifyCalls |-> NoVerifyCall]
  /\ promises = <<>>
  /\ verificationPromiseCache = <<>>
  /\ req = NoRequest
  /\ checkins = [k \in CheckinCalls |-> NoCheckin]
  /\ upload = NoUpload
  /\ InitRest

\* the check-ins are bob's, of alice's ticket t1; the polls are alice's
SuperuserProofs ==
  {checkerProof \in CheckerProofs :
     /\ checkerProof.pcd.identityCommitment = "c_bob"
     /\ checkerProof.pcd.wellFormed /\ checkerProof.pcd.proofValid
     /\ checkerProof.pcd.signedMessage = ISSUANCE_STRING}
HolderCredentials ==
  {credential \in Credentials :
     /\ credential.pcd.identityCommitment = "c_alice"
     /\ credential.pcd.wellFormed = credential.pcd.proofValid}

\* The store and the signer answer (their failures are followed in
\* NextCheckin and NextFeed)
NextCheckinFeed ==
  \/ \E k \in CheckinCalls, checkerProof \in SuperuserProofs :
       CheckinStart(k, checkerProof, "t1")
  \/ \E k \in CheckinCalls : CheckinCheck(k, FALSE)
  \/ \E k \in CheckinCalls : CheckinConsume(k, FALSE)
  \/ \E credential \in HolderCredentials :
       FeedPoll("Devconnect", <<credential>>)
  \/ FeedVerified
  \/ FeedRespond(0)
  \/ FeedFinish
  \/ VerifySteps
  \/ \E c \in Calls : GetCachedTicket(c)
  \/ \E c \in Calls : SignDone(c)
  \/ \E ticket \in pendingWrites : cacheTicket(ticket)

SpecCheckinFeed == InitCheckinFeed /\ [][NextCheckinFeed]_vars

(***************************************************************************)
(* Redacted tickets: the queries of devconnect_pretix_redacted_tickets     *)
(* and agreeTermsAndUnredactTickets.                                       *)
(***************************************************************************)
\* a row of devconnect_pretix_redacted_tickets (DevconnectPretixRedactedTicket)
RedactedTicket(hashed_email, position_id, eventConfigID, is_consumed) ==
  [ hashed_email |-> hashed_email,
    is_consumed |-> is_consumed,
    position_id |-> position_id,
    secret |-> "secret-of-" \o position_id,
    checker |-> IF is_consumed THEN "pretix@x" ELSE Undefined,
    pretix_checkin_timestamp |-> IF is_consumed THEN 1 ELSE 0,
    devconnect_pretix_items_info_id |-> "item-GA",
    pretix_events_config_id |-> eventConfigID ]

\* the positions the upserts name: the one of ticket t1 and one that has no
\* row in devconnect_pretix_tickets
RedactedPositions == {"pos-t1", "pos-t7"}
\* the parameters of upsertDevconnectPretixRedactedTicket
RedactedParams ==
  { RedactedTicket(getHash(email), position_id, "ev-Cowork", is_consumed) :
      email \in UserEmails, position_id \in RedactedPositions,
      is_consumed \in BOOLEAN }

\* the columns of the unique constraint of both tables
ConflictKey(row) == <<row.pretix_events_config_id, row.position_id>>

\* (mutant) an INSERT without the ON CONFLICT clause
upsertDevconnectPretixRedactedTicket_insertOnly(table, params) ==
  table \cup {params}

\* upsertDevconnectPretixRedactedTicket: INSERT ... ON CONFLICT
\* (pretix_events_config_id, position_id) DO UPDATE SET every other column
upsertDevconnectPretixRedactedTicket(table, params) ==
  {row \in table : ConflictKey(row) # ConflictKey(params)} \cup {params}

\* deleteDevconnectPretixRedactedTickets
deleteDevconnectPretixRedactedTickets(table, eventConfigID, ids) ==
  {row \in table : ~(/\ row.pretix_events_config_id = eventConfigID
                     /\ row.position_id \in ids)}

\* fetchDevconnectPretixRedactedTicketsByHashedEmail
fetchDevconnectPretixRedactedTicketsByHashedEmail(table, hashedEmail) ==
  {row \in table : row.hashed_email = hashedEmail}

\* the ids the store gives to new rows of devconnect_pretix_tickets
FreshTicketIds == {"t7", "t8"}
\* the event of a pretix_events_config_id (the join of the ticket queries)
eventNameOf(eventConfigID) ==
  CHOOSE name \in {"Cowork", "SBC SRW"} : "ev-" \o name = eventConfigID

\* (mutant) the conflicting row keeps its id and its other columns, the
\* consumed flag among them
unredactTicket_keepsRow(db, email, redactedTicket) ==
  LET conflicting == {id \in DOMAIN db :
                        ConflictKey(db[id]) = ConflictKey(redactedTicket)}
      id == CHOOSE i \in conflicting : TRUE
  IN  IF conflicting # {}
      THEN [db EXCEPT ![id] = [@ EXCEPT !.email = email, !.is_deleted = FALSE]]
      ELSE db

\* the INSERT INTO devconnect_pretix_tickets ... ON CONFLICT (position_id,
\* pretix_events_config_id) DO UPDATE of agreeTermsAndUnredactTickets, for
\* one redacted ticket
unredactTicket(db, email, redactedTicket) ==
  LET conflicting == {id \in DOMAIN db :
                        ConflictKey(db[id]) = ConflictKey(redactedTicket)}
      id == CHOOSE i \in conflicting : TRUE
      newId == CHOOSE i \in FreshTicketIds : i \notin DOMAIN db
  IN  IF conflicting # {}
      THEN [db EXCEPT ![id] =
             [@ EXCEPT
                !.email = email,
                !.full_name = "",
                !.devconnect_pretix_items_info_id =
                  redactedTicket.devconnect_pretix_items_info_id,
                !.pretix_events_config_id =
                  redactedTicket.pretix_events_config_id,
                !.is_deleted = FALSE,
                !.is_consumed = redactedTicket.is_consumed,
                !.secret = redactedTicket.secret,
                !.checker = redactedTicket.checker,
                !.zupass_checkin_timestamp = 0,
                !.pretix_checkin_timestamp =
                  redactedTicket.pretix_checkin_timestamp]]
      ELSE db @@ (newId :>
             [ id |-> newId,
               full_name |-> "",
               email |-> email,
               event_name |-> eventNameOf(redactedTicket.pretix_events_config_id),
               item_name |-> "GA",
               checker |-> redactedTicket.checker,
               pretix_events_config_id |->
                 redactedTicket.pretix_events_config_id,
               devconnect_pretix_items_info_id |->
                 redactedTicket.devconnect_pretix_items_info_id,
               zupass_checkin_timestamp |-> 0,
               is_consumed |-> redactedTicket.is_consumed,
               is_deleted |-> FALSE,
               position_id |-> redactedTicket.position_id,
               secret |-> redactedTicket.secret,
               pretix_checkin_timestamp |->
                 redactedTicket.pretix_checkin_timestamp ])

\* the loop of agreeTermsAndUnredactTickets over the redacted tickets
RECURSIVE unredactTickets(_, _, _)
unredactTickets(db, email, redacted) ==
  IF redacted = {} THEN db
  ELSE LET redactedTicket == CHOOSE row \in redacted : TRUE
       IN  unredactTickets(unredactTicket(db, email, redactedTicket), email,
                           redacted \ {redactedTicket})

\* a sync writes one redacted ticket
UpsertRedacted(params) ==
  /\ redactedTickets' =
       upsertDevconnectPretixRedactedTicket(redactedTickets, params)
  /\ UNCHANGED termsAgreed
  /\ UNCHANGED <<now, ticketsDB, cache, pendingWrites, calls, req>>
  /\ UNCHANGED <<verifyVars, checkinVars, otherVars>>

\* a sync removes the redacted tickets of some positions of an event
DeleteRedacted(eventConfigID, ids) ==
  /\ redactedTickets' =
       deleteDevconnectPretixRedactedTickets(redactedTickets, eventConfigID,
                                             ids)
  /\ UNCHANGED termsAgreed
  /\ UNCHANGED <<now, ticketsDB, cache, pendingWrites, calls, req>>
  /\ UNCHANGED <<verifyVars, checkinVars, otherVars>>

\* agreeTermsAndUnredactTickets: the transaction commits.  The user's row is
\* updated, every redacted ticket under the hash of the email is written to
\* devconnect_pretix_tickets and the redacted tickets are deleted
AgreeTermsAndUnredactTickets(email, version) ==
  LET hashedEmail == getHash(email)
      redacted == fetchDevconnectPretixRedactedTicketsByHashedEmail(
                    redactedTickets, hashedEmail)
  IN  /\ termsAgreed' = IF email \in DOMAIN termsAgreed
                        THEN [termsAgreed EXCEPT ![email] = version]
                        ELSE termsAgreed
      /\ ticketsDB' = unredactTickets(ticketsDB, email, redacted)
      /\ redactedTickets' =
           {row \in redactedTickets : row.hashed_email # hashedEmail}
      /\ UNCHANGED <<now, cache, pendingWrites, calls, req>>
      /\ UNCHANGED <<verifyVars, checkinVars, otherVars>>

\* the versions of the terms
TermsVersions == {1}
\* syncs and users agreeing to the terms
NextRedact ==
  \/ \E params \in RedactedParams : UpsertRedacted(params)
  \/ \E ids \in SUBSET RedactedPositions : DeleteRedacted("ev-Cowork", ids)
  \/ \E email \in UserEmails, version \in TermsVersions :
       AgreeTermsAndUnredactTickets(email, version)

SpecRedact == InitCheckin /\ [][NextRedact]_vars

\* the redacted tickets that name the position of ticket t1
RedactedParamsOfTicket ==
  {params \in RedactedParams :
     /\ params.position_id = "pos-t1"
     /\ params.hashed_email = getHash("bob@x")}
\* the uploads of the superuser: ticket t1
TicketBatches == {ids \in Batches : ids = <<"t1">>}

\* a superuser checking ticket t1 in, online and offline, while syncs write
\* redacted tickets for its position and users agree to the terms
NextRedactCheckin ==
  \/ \E params \in RedactedParamsOfTicket : UpsertRedacted(params)
  \/ \E version \in TermsVersions :
       AgreeTermsAndUnredactTickets("bob@x", version)
  \/ \E k \in CheckinCalls, checkerProof \in SuperuserProofs :
       CheckinStart(k, checkerProof, "t1")
  \/ \E k \in CheckinCalls : CheckinCheck(k, FALSE)
  \/ \E k \in CheckinCalls : CheckinConsume(k, FALSE)
  \/ \E checkerProof \in SuperuserProofs, ids \in TicketBatches :
       UploadStart(checkerProof, ids)
  \/ UploadVerified
  \/ UploadCheckIn
  \/ UploadFinish
  \/ VerifyInvoke(UploadVerifyCall)
  \/ \E p \in DOMAIN promises : PromiseResolve(p)
  \/ VerifyReturn(UploadVerifyCall)

SpecRedactCheckin == InitCheckin /\ [][NextRedactCheckin]_vars

(***************************************************************************)
(* agreeTermsAndUnredactTickets, statement by statement.  The statements   *)
(* run on the connection of sqlTransaction: the other connections read the *)
(* committed tables.                                                       *)
(***************************************************************************)
Tables == [ticketsDB |-> ticketsDB, redactedTickets |-> redactedTickets,
           termsAgreed |-> termsAgreed]

\* (mutant) statements that are committed one by one
visibleInTransaction_autocommit(committed, work) == work

\* sqlTransaction: what the other connections read while the transaction is
\* open
visibleInTransaction(committed, work) == committed

\* the tables the other connections read become t
VisibleTables(t) ==
  /\ ticketsDB' = t.ticketsDB
  /\ redactedTickets' = t.redactedTickets
  /\ termsAgreed' = t.termsAgreed

UnredactionUnchanged ==
  /\ UNCHANGED <<now, cache, pendingWrites, calls, req>>
  /\ UNCHANGED <<verifyVars, checkinVars>>
  /\ UNCHANGED <<frogcrypto, pipelines, ticketVerification, telegram>>
  /\ UNCHANGED instantiations

\* a statement of the transaction left the tables of its connection as work
TxStatement(pc, work, redacted) ==
  /\ unredaction' = [unredaction EXCEPT !.pc = pc, !.work = work,
                                        !.redacted = redacted]
  /\ VisibleTables(visibleInTransaction(Tables, work))
  /\ UnredactionUnchanged

\* sqlTransaction begins
TxBegin(email, version) ==
  /\ unredaction.pc \in {"idle", "committed", "rolledBack"}
  /\ unredaction' = [ pc |-> "update", email |-> email, version |-> version,
                      begin |-> Tables, work |-> Tables, redacted |-> {} ]
  /\ UNCHANGED <<ticketsDB, redactedTickets, termsAgreed>>
  /\ UnredactionUnchanged

\* UPDATE users SET terms_agreed = $1 WHERE email = $2
TxUpdateTerms ==
  /\ unredaction.pc = "update"
  /\ LET work == unredaction.work
     IN  TxStatement("select",
           [work EXCEPT !.termsAgreed =
              IF unredaction.email \in DOMAIN @
              THEN [@ EXCEPT ![unredaction.email] = unredaction.version]
              ELSE @],
           {})

\* SELECT * FROM devconnect_pretix_redacted_tickets WHERE hashed_email = $1
TxSelectRedacted ==
  /\ unredaction.pc = "select"
  /\ LET redacted == fetchDevconnectPretixRedactedTicketsByHashedEmail(
                       unredaction.work.redactedTickets,
                       getHash(unredaction.email))
     IN  TxStatement(IF redacted = {} THEN "delete" ELSE "insert",
                     unredaction.work, redacted)

\* INSERT INTO devconnect_pretix_tickets ... ON CONFLICT ... DO UPDATE, for
\* the next redacted ticket
TxInsertTicket ==
  /\ unredaction.pc = "insert"
  /\ LET redactedTicket == CHOOSE row \in unredaction.redacted : TRUE
         rest == unredaction.redacted \ {redactedTicket}
     IN  TxStatement(IF rest = {} THEN "delete" ELSE "insert",
           [unredaction.work EXCEPT !.ticketsDB =
              unredactTicket(@, unredaction.email, redactedTicket)],
           rest)

\* DELETE FROM devconnect_pretix_redacted_tickets WHERE hashed_email = $1
TxDeleteRedacted ==
  /\ unredaction.pc = "delete"
  /\ TxStatement("commit",
       [unredaction.work EXCEPT !.redactedTickets =
          {row \in @ : row.hashed_email # getHash(unredaction.email)}],
       {})

\* the transaction commits
TxCommit ==
  /\ unredaction.pc = "commit"
  /\ unredaction' = [unredaction EXCEPT !.pc = "committed"]
  /\ VisibleTables(unredaction.work)
  /\ UnredactionUnchanged

\* a statement or the commit fails: the transaction is rolled back
TxFail ==
  /\ unredaction.pc \in {"update", "select", "insert", "delete", "commit"}
  /\ unredaction' = [unredaction EXCEPT !.pc = "rolledBack"]
  /\ UNCHANGED <<ticketsDB, redactedTickets, termsAgreed>>
  /\ UnredactionUnchanged

\* syncs write redacted tickets, then users agree to the terms
NextUnredaction ==
  \/ \E params \in RedactedParams :
       unredaction.pc = "idle" /\ UpsertRedacted(params)
  \/ \E email \in UserEmails, version \in TermsVersions : TxBegin(email, version)
  \/ TxUpdateTerms
  \/ TxSelectRedacted
  \/ TxInsertTicket
  \/ TxDeleteRedacted
  \/ TxCommit
  \/ TxFail

SpecUnredaction == InitCheckin /\ [][NextUnredaction]_vars

(***************************************************************************)
(* FrogCrypto feeds: the routes of initFrogcryptoRoutes and the feed host  *)
(* of FrogcryptoService behind them.  A feed is discoverable unless it is  *)
(* marked private.                                                         *)
(***************************************************************************)
FrogFeedIds == {"frog-f1", "frog-f2"}
UnknownFeedIds == {"frog-f9"}
\* FrogCryptoFeed, as far as the listing reads it
FrogCryptoFeed(id, private) == [id |-> id, private |-> private]
FrogCryptoFeeds == {FrogCryptoFeed(id, private) : id \in FrogFeedIds, private \in BOOLEAN}

\* the answer of a route: the status and the body sent
FrogResponse(kind, feedId, status, body) ==
  [kind |-> kind, feedId |-> feedId, status |-> status, body |-> body]
ListFeedsResponseValue(feeds) ==
  [providerName |-> "FrogCrypto", feeds |-> feeds]

\* FrogcryptoService.hasFeedWithId
frogHasFeedWithId(feeds, feedId) == \E f \in feeds : f.id = feedId
\* FrogcryptoService.handleListFeedsRequest: the discoverable feeds
frogHandleListFeedsRequest(feeds) ==
  ListFeedsResponseValue({f \in feeds : ~f.private})
\* FrogcryptoService.handleListSingleFeedRequest: the feed of that id
frogHandleListSingleFeedRequest(feeds, feedId) ==
  ListFeedsResponseValue({f \in feeds : f.id = feedId})
\* FrogcryptoService.handleFeedRequest: the feed of that id serves the
\* request, whether it is private or not; what it issues is left out
frogHandleFeedRequest(feeds, feedId) ==
  IF frogHasFeedWithId(feeds, feedId)
  THEN FrogResponse("poll", feedId, 200, [servedBy |-> feedId])
  ELSE FrogResponse("poll", feedId, 500, <<>>)

\* GET /frogcrypto/feeds/:feedId without the hasFeedWithId test
frogListSingleFeedRoute_noCheck(feeds, feedId) ==
  FrogResponse("single", feedId, 200,
               frogHandleListSingleFeedRequest(feeds, feedId))
\* GET /frogcrypto/feeds/:feedId
frogListSingleFeedRoute(feeds, feedId) ==
  IF ~frogHasFeedWithId(feeds, feedId)
  THEN FrogResponse("single", feedId, 404, <<>>)
  ELSE FrogResponse("single", feedId, 200,
                    frogHandleListSingleFeedRequest(feeds, feedId))
\* GET /frogcrypto/feeds
frogListFeedsRoute(feeds) ==
  FrogResponse("list", "", 200, frogHandleListFeedsRequest(feeds))

FrogUnchanged ==
  /\ UNCHANGED <<now, ticketsDB, cache, pendingWrites, calls, req>>
  /\ UNCHANGED <<verifyVars, checkinVars, redactVars, pipelines>>
  /\ UNCHANGED <<ticketVerification, telegram, unredaction, instantiations>>

\* POST /frogcrypto/admin/feeds: the feed replaces the one of its id
FrogUpdateFeeds(feed) ==
  /\ frogcrypto' = [feeds |-> {f \in frogcrypto.feeds : f.id # feed.id} \cup {feed},
                    response |-> << FrogResponse("update", feed.id, 200, <<>>) >>]
  /\ FrogUnchanged

FrogListFeeds ==
  /\ frogcrypto' = [frogcrypto EXCEPT
                      !.response = << frogListFeedsRoute(frogcrypto.feeds) >>]
  /\ FrogUnchanged

FrogListSingleFeed(feedId) ==
  /\ frogcrypto' = [frogcrypto EXCEPT
                      !.response = << frogListSingleFeedRoute(frogcrypto.feeds, feedId) >>]
  /\ FrogUnchanged

FrogPollFeed(feedId) ==
  /\ frogcrypto' = [frogcrypto EXCEPT
                      !.response = << frogHandleFeedRequest(frogcrypto.feeds, feedId) >>]
  /\ FrogUnchanged

NextFrogFeeds ==
  \/ \E feed \in FrogCryptoFeeds : FrogUpdateFeeds(feed)
  \/ FrogListFeeds
  \/ \E feedId \in FrogFeedIds \cup UnknownFeedIds : FrogListSingleFeed(feedId)
  \/ \E feedId \in FrogFeedIds \cup UnknownFeedIds : FrogPollFeed(feedId)

SpecFrogFeeds == Init /\ [][NextFrogFeeds]_vars

(***************************************************************************)
(* Pipelines: the sync loop of a running pipeline.  A cycle fetches the    *)
(* records of the provider, maps them to atoms and applies the difference  *)
(* to the Atom Store as one batch; an atom that is consumed is moved to    *)
(* the redacted tickets instead of being deleted.                          *)
(***************************************************************************)
PipelineIds == {"pl-1", "pl-2"}
PositionIds == {"pos-1", "pos-2"}
\* the record sets a provider can report, by the position ids they hold
RecordSets == SUBSET PositionIds

\* a pipeline after start(): running, nothing loaded, no cycle in flight
Pipeline(upstream) ==
  [ state |-> "Running",
    upstream |-> upstream,   \* what the provider reports now
    atoms |-> {},            \* the key set of the Atom Store
    consumed |-> {},         \* the Checkin Store: the atoms checked in
    redacted |-> {},         \* the redacted tickets of the pipeline
    cycles |-> <<>>,         \* the cycles in flight: number -> cycle
    started |-> 0,
    completed |-> 0,
    failed |-> 0,
    synced |-> <<>> ]        \* the records of the last batch applied

\* a cycle in flight: its step, what it fetched, the store when it began
SyncCycle(step, batch, before) ==
  [step |-> step, batch |-> batch, before |-> before]

Without(f, k) == [x \in DOMAIN f \ {k} |-> f[x]]

\* (mutant) a tick that starts a cycle whatever is in flight
canStartCycle_overlapping(pl) ==
  /\ pl.state = "Running"
  /\ pl.started < MaxCycles

\* a tick starts a cycle only when no cycle of the pipeline is in flight
canStartCycle(pl) ==
  /\ pl.state = "Running"
  /\ pl.cycles = <<>>
  /\ pl.started < MaxCycles

\* step 3: the atoms present locally and absent upstream
syncDeletions(pl, batch) == pl.atoms \ batch
\* step 4, the deletion guard: those of them that are consumed
syncRedactions(pl, batch) == syncDeletions(pl, batch) \cap pl.consumed

\* the redacted ticket an atom is kept as
RedactedAtom(pipelineId, id) ==
  RedactedTicket(getHash("alice@x"), id, pipelineId, TRUE)

RECURSIVE redactAtoms(_, _, _)
redactAtoms(table, pipelineId, ids) ==
  IF ids = {} THEN table
  ELSE LET id == CHOOSE x \in ids : TRUE
       IN  redactAtoms(
             upsertDevconnectPretixRedactedTicket(table,
                                                  RedactedAtom(pipelineId, id)),
             pipelineId, ids \ {id})

\* (mutant) step 5 without the deletion guard
applyBatch_hardDelete(pipelineId, pl, n) ==
  [ pl EXCEPT !.atoms = pl.cycles[n].batch,
              !.cycles = Without(pl.cycles, n),
              !.completed = @ + 1,
              !.synced = << pl.cycles[n].batch >> ]

\* step 5 and 6: upserts, deletions and redactions in one commit
applyBatch(pipelineId, pl, n) ==
  [ pl EXCEPT !.atoms = pl.cycles[n].batch,
              !.redacted = redactAtoms(pl.redacted, pipelineId,
                                       syncRedactions(pl, pl.cycles[n].batch)),
              !.cycles = Without(pl.cycles, n),
              !.completed = @ + 1,
              !.synced = << pl.cycles[n].batch >> ]

\* (mutant) a failed cycle that has written the atoms it had fetched
abortCycle_partialWrite(pl, n) ==
  [ pl EXCEPT !.atoms = @ \cup pl.cycles[n].batch,
              !.cycles = Without(pl.cycles, n),
              !.failed = @ + 1 ]

\* a failed cycle ends; the store is not written, the pipeline keeps running
abortCycle(pl, n) ==
  [ pl EXCEPT !.cycles = Without(pl.cycles, n),
              !.failed = @ + 1 ]

PipelineUnchanged ==
  /\ UNCHANGED <<now, ticketsDB, cache, pendingWrites, calls, req>>
  /\ UNCHANGED <<verifyVars, checkinVars, redactVars, frogcrypto>>
  /\ UNCHANGED <<ticketVerification, telegram, unredaction, instantiations>>

\* the provider reports another record set
UpstreamChange(p, records) ==
  /\ pipelines[p].upstream # records
  /\ pipelines' = [pipelines EXCEPT ![p].upstream = records]
  /\ PipelineUnchanged

\* an atom of the store is checked in
PipelineCheckin(p, id) ==
  /\ id \in pipelines[p].atoms
  /\ id \notin pipelines[p].consumed
  /\ pipelines' = [pipelines EXCEPT ![p].consumed = @ \cup {id}]
  /\ PipelineUnchanged

\* the scheduled tick: Idle -> Syncing
SyncTick(p) ==
  /\ canStartCycle(pipelines[p])
  /\ pipelines' = [pipelines EXCEPT
       ![p].started = @ + 1,
       ![p].cycles = (pipelines[p].started + 1 :>
                        SyncCycle("Fetch", {}, pipelines[p].atoms)) @@ @]
  /\ PipelineUnchanged

\* step 1: the provider adapter answers
SyncFetched(p, n) ==
  /\ n \in DOMAIN pipelines[p].cycles
  /\ pipelines[p].cycles[n].step = "Fetch"
  /\ pipelines' = [pipelines EXCEPT
       ![p].cycles[n] = SyncCycle("Map", pipelines[p].upstream, @.before)]
  /\ PipelineUnchanged

\* step 2: the records are mapped to atoms
SyncMapped(p, n) ==
  /\ n \in DOMAIN pipelines[p].cycles
  /\ pipelines[p].cycles[n].step = "Map"
  /\ pipelines' = [pipelines EXCEPT ![p].cycles[n].step = "Apply"]
  /\ PipelineUnchanged

\* step 1 or 2 fails: FetchError, or a record that cannot be mapped
SyncFail(p, n) ==
  /\ n \in DOMAIN pipelines[p].cycles
  /\ pipelines[p].cycles[n].step \in {"Fetch", "Map"}
  /\ pipelines' = [pipelines EXCEPT ![p] = abortCycle(@, n)]
  /\ PipelineUnchanged

\* steps 3 to 6
SyncApply(p, n) ==
  /\ n \in DOMAIN pipelines[p].cycles
  /\ pipelines[p].cycles[n].step = "Apply"
  /\ pipelines' = [pipelines EXCEPT ![p] = applyBatch(p, @, n)]
  /\ PipelineUnchanged

CycleNumbers == 1..MaxCycles

SyncSteps(p) ==
  \/ SyncTick(p)
  \/ \E n \in CycleNumbers : SyncFetched(p, n)
  \/ \E n \in CycleNumbers : SyncMapped(p, n)
  \/ \E n \in CycleNumbers : SyncFail(p, n)
  \/ \E n \in CycleNumbers : SyncApply(p, n)

\* the issuance service idle
InitIdle ==
  /\ now = 0
  /\ ticketsDB \in CheckinTicketDBs
  /\ cache = <<>>
  /\ pendingWrites = {}
  /\ calls = [c \in Calls |-> NoCall]
  /\ vcalls = [v \in VerifyCalls |-> NoVerifyCall]
  /\ promises = <<>>
  /\ verificationPromiseCache = <<>>
  /\ req = NoRequest
  /\ checkins = [k \in CheckinCalls |-> NoCheckin]
  /\ upload = NoUpload
  /\ redactedTickets = {}
  /\ termsAgreed = [email \in UserEmails |-> 0]
  /\ frogcrypto = NoFrogcrypto
  /\ ticketVerification = <<>>
  /\ telegram = NoTelegram
  /\ unredaction = NoUnredaction
  /\ instantiations = [i \in Instantiations |-> NoInstantiation]

\* one pipeline, whose provider changes what it reports
InitPipelineSync ==
  /\ InitIdle
  /\ \E records \in RecordSets : pipelines = ("pl-1" :> Pipeline(records))

NextPipelineSync ==
  \/ \E records \in RecordSets : UpstreamChange("pl-1", records)
  \/ \E id \in PositionIds : PipelineCheckin("pl-1", id)
  \/ SyncSteps("pl-1")

SpecPipelineSync == InitPipelineSync /\ [][NextPipelineSync]_vars

\* two pipelines, each on its own schedule
InitPipelines ==
  /\ InitIdle
  /\ pipelines = [p \in PipelineIds |-> Pipeline({"pos-1"})]

NextPipelines ==
  \E p \in PipelineIds : SyncSteps(p)

SpecPipelines == InitPipelines /\ [][NextPipelines]_vars

(***************************************************************************)
(* Ticket verification: IssuanceService.handleVerifyTicketRequest.         *)
(***************************************************************************)
ZKEdDSAEventTicketPCDTypeName == "zk-eddsa-event-ticket-pcd"

\* known_ticket_types: the ticket types the server vouches for
KnownTicketTypes ==
  { [ event_id |-> "ev-zuconnect", product_id |-> "prod-zuconnect",
      public_key |-> "zupass-public-key",
      known_public_key_name |-> "Zupass",
      ticket_group |-> "Zuconnect23" ] }

\* fetchKnownTicketByEventAndProductId: the row, if any
fetchKnownTicketByEventAndProductId(eventId, productId) ==
  LET rows == {tt \in KnownTicketTypes :
                 tt.event_id = eventId /\ tt.product_id = productId}
  IN  IF rows = {} THEN <<>> ELSE << CHOOSE tt \in rows : TRUE >>

isEqualEdDSAPublicKey(a, b) == a = b

\* the value an async function returns: a promise of its result
PromiseOf(value) == [object |-> TRUE, resolvesTo |-> value]
\* the value of an expression under "!" or "if": an object, and so a
\* promise, is truthy whatever it resolves to
ToBoolean(v) == v.object

\* EdDSAPCDPackage.verify: the signature is one of claim.publicKey over
\* claim.message
EdDSAVerify(eddsaPCD) == eddsaPCD.proof.valid

\* EdDSATicketPCDPackage.verify, an async function
EdDSATicketVerify(pcd) ==
  PromiseOf(IF ticketDataToBigInts(pcd.claim.ticket) # pcd.proof.eddsaPCD.claim.message
            THEN FALSE
            ELSE EdDSAVerify(pcd.proof.eddsaPCD))

\* ZKEdDSAEventTicketPCDPackage.verify, an async function
ZKEdDSAEventTicketVerify(pcd) == PromiseOf(pcd.proof.valid)

\* the event and product ids a submitted ticket can name
SubmittedEventIds == {"ev-zuconnect", "ev-unknown"}
SubmittedPublicKeys == {"zupass-public-key", "other-public-key"}

\* a serialized EdDSATicketPCD, as deserialize returns it
SubmittedTicketPCD(eventId, publicKey, claimIsSigned, signatureValid) ==
  LET ticket == [eventId |-> eventId, productId |-> "prod-zuconnect"]
  IN  [ type |-> EdDSAPCDTypeName,
        pcd |-> [ claim |-> [ticket |-> ticket],
                  proof |-> [eddsaPCD |->
                    [ claim |-> [ message |->
                                    IF claimIsSigned
                                    THEN ticketDataToBigInts(ticket)
                                    ELSE ticketDataToBigInts(
                                           [ticket EXCEPT !.eventId = "ev-signed"]),
                                  publicKey |-> publicKey ],
                      proof |-> [valid |-> signatureValid] ]] ] ]

\* a serialized ZKEdDSAEventTicketPCD, as deserialize returns it
SubmittedZKTicketPCD(eventId, signer, revealed, expired, proofValid) ==
  [ type |-> ZKEdDSAEventTicketPCDTypeName,
    pcd |-> [ claim |-> [ partialTicket |->
                            IF revealed
                            THEN [eventId |-> eventId, productId |-> "prod-zuconnect"]
                            ELSE [eventId |-> eventId, productId |-> Undefined],
                          watermarkExpired |-> expired,
                          signer |-> signer ],
              proof |-> [valid |-> proofValid] ] ]

SubmittedPCDs ==
  {SubmittedTicketPCD(eventId, publicKey, claimIsSigned, signatureValid) :
     eventId \in SubmittedEventIds, publicKey \in SubmittedPublicKeys,
     claimIsSigned \in BOOLEAN, signatureValid \in BOOLEAN}
  \cup
  {SubmittedZKTicketPCD(eventId, signer, revealed, expired, proofValid) :
     eventId \in SubmittedEventIds, signer \in SubmittedPublicKeys,
     revealed \in BOOLEAN, expired \in BOOLEAN, proofValid \in BOOLEAN}
  \cup
  { [type |-> "semaphore-signature-pcd", pcd |-> <<>>],
    [type |-> "", pcd |-> <<>>] }

\* the request bodies: text that JSON.parse accepts or not
VerifyTicketRequests ==
  {[parses |-> TRUE, pcd |-> serializedPCD] : serializedPCD \in SubmittedPCDs}
  \cup {[parses |-> FALSE, pcd |-> <<>>]}

NotVerified(message) ==
  [kind |-> "value", success |-> TRUE, verified |-> FALSE, message |-> message]
Verified(knownTicketType) ==
  [ kind |-> "value", success |-> TRUE, verified |-> TRUE,
    publicKeyName |-> knownTicketType.known_public_key_name,
    group |-> knownTicketType.ticket_group ]
\* the promise of the async function rejects with the Error thrown
RejectedWith(message) == [kind |-> "rejected", message |-> message]

\* the comparison with the known ticket types, common to both branches
verifyKnownTicketType(eventId, productId, publicKey) ==
  LET knownTicketType == fetchKnownTicketByEventAndProductId(eventId, productId)
  IN  IF /\ knownTicketType # <<>>
         /\ isEqualEdDSAPublicKey(knownTicketType[1].public_key, publicKey)
      THEN Verified(knownTicketType[1])
      ELSE NotVerified("Not a valid ticket")

\* IssuanceService.verifyZuconnect23OrZuzalu23Ticket
verifyZuconnect23OrZuzalu23Ticket(serializedPCD) ==
  IF serializedPCD.type = "" THEN RejectedWith("input was not a serialized PCD")
  ELSE IF serializedPCD.type \notin {EdDSAPCDTypeName, ZKEdDSAEventTicketPCDTypeName}
  THEN RejectedWith("serialized PCD was wrong type")
  ELSE IF serializedPCD.type = EdDSAPCDTypeName
  THEN LET pcd == serializedPCD.pcd
       IN  IF ~ToBoolean(EdDSATicketVerify(pcd))
           THEN NotVerified("Could not verify PCD.")
           ELSE verifyKnownTicketType(pcd.claim.ticket.eventId,
                                      pcd.claim.ticket.productId,
                                      pcd.proof.eddsaPCD.claim.publicKey)
  ELSE LET pcd == serializedPCD.pcd
       IN  IF ~ToBoolean(ZKEdDSAEventTicketVerify(pcd))
           THEN NotVerified("Could not verify PCD.")
           ELSE IF ~(/\ pcd.claim.partialTicket.eventId # Undefined
                     /\ pcd.claim.partialTicket.productId # Undefined)
           THEN NotVerified("PCD does not reveal the correct fields.")
           ELSE IF pcd.claim.watermarkExpired
           THEN NotVerified("PCD watermark has expired.")
           ELSE verifyKnownTicketType(pcd.claim.partialTicket.eventId,
                                      pcd.claim.partialTicket.productId,
                                      pcd.claim.signer)

\* IssuanceService.handleVerifyTicketRequest: the catch sees what
\* JSON.parse throws; the promise is returned without being awaited
handleVerifyTicketRequest(request) ==
  IF ~request.parses
  THEN [kind |-> "PCDHTTPError", status |-> 500,
        message |-> "The ticket could not be verified"]
  ELSE verifyZuconnect23OrZuzalu23Ticket(request.pcd)

HandleVerifyTicketRequest(request) ==
  /\ ticketVerification' =
       << [request |-> request, result |-> handleVerifyTicketRequest(request)] >>
  /\ UNCHANGED <<now, ticketsDB, cache, pendingWrites, calls, req>>
  /\ UNCHANGED <<verifyVars, checkinVars, redactVars, frogcrypto, pipelines>>
  /\ UNCHANGED <<telegram, unredaction, instantiations>>

NextVerifyTicket ==
  \E request \in VerifyTicketRequests : HandleVerifyTicketRequest(request)

SpecVerifyTicket == Init /\ [][NextVerifyTicket]_vars

(***************************************************************************)
(* TelegramService: the auth bot and the requests to join a gated chat.    *)
(***************************************************************************)
TelegramUserIds == {"tg-1", "tg-2"}
TelegramChatIds == {"chat-A"}

NotVerifiedMessage == "You are not verified. Try again with the /start command."
ApprovedMessage == "You have been approved!"
ErrorJoiningMessage == "Error joining"

\* fetchTelegramVerificationStatus
fetchTelegramVerificationStatus(verifications, userId, chatId) ==
  <<userId, chatId>> \in verifications

\* (mutant) a handler that approves without reading the status
afterVerificationStatus_approveAll(isVerified) == "getGroupChat"

\* if (isVerified) ... else ...: where the handler goes next
afterVerificationStatus(isVerified) ==
  IF isVerified THEN "getGroupChat" ELSE "notVerified"

TelegramUnchanged ==
  /\ UNCHANGED <<now, ticketsDB, cache, pendingWrites, calls, req>>
  /\ UNCHANGED <<verifyVars, checkinVars, redactVars>>
  /\ UNCHANGED <<frogcrypto, pipelines, ticketVerification, unredaction>>
  /\ UNCHANGED instantiations

\* the user proved a ticket for the chat: insertTelegramVerification
InsertTelegramVerification(userId, chatId) ==
  /\ <<userId, chatId>> \notin telegram.verifications
  /\ telegram' = [telegram EXCEPT !.verifications = @ \cup {<<userId, chatId>>},
                                  !.left = @ \ {<<userId, chatId>>}]
  /\ TelegramUnchanged

\* the statuses of newMember in a chat_member update
ChatMemberStatuses == {"member", "left", "kicked"}

\* (mutant) a handler that forgets the users who leave by themselves
leavesChat_kickedOnly(status) == status = "kicked"

\* newMember.status === "left" || newMember.status === "kicked"
leavesChat(status) == status = "left" \/ status = "kicked"

\* deleteTelegramVerification
deleteTelegramVerification(verifications, userId, chatId) ==
  verifications \ {<<userId, chatId>>}

\* chat_member: a left or kicked user loses the verification for the chat
ChatMember(userId, chatId, status) ==
  /\ telegram' = [telegram EXCEPT
       !.verifications =
          IF leavesChat(status)
          THEN deleteTelegramVerification(@, userId, chatId) ELSE @,
       !.left = IF status \in {"left", "kicked"}
                THEN @ \cup {<<userId, chatId>>} ELSE @]
  /\ TelegramUnchanged

\* chat_join_request arrives
ChatJoinRequest(j, userId, chatId) ==
  /\ telegram.joins[j].pc = "idle"
  /\ \A i \in JoinRequests : i < j => telegram.joins[i].pc # "idle"
  /\ telegram' = [telegram EXCEPT
       !.joins[j] = [@ EXCEPT !.pc = "fetchStatus", !.userId = userId,
                              !.chatId = chatId]]
  /\ TelegramUnchanged

\* await fetchTelegramVerificationStatus returns
JoinStatusFetched(j) ==
  /\ telegram.joins[j].pc = "fetchStatus"
  /\ LET isVerified == fetchTelegramVerificationStatus(
                         telegram.verifications, telegram.joins[j].userId,
                         telegram.joins[j].chatId)
     IN  telegram' = [telegram EXCEPT
           !.joins[j] = [@ EXCEPT !.pc = afterVerificationStatus(isVerified),
                                  !.verifiedAtFetch = <<isVerified>>,
                                  !.leftAtFetch =
                                     <<telegram.joins[j].userId,
                                       telegram.joins[j].chatId>>
                                       \in telegram.left]]
  /\ TelegramUnchanged

\* await getGroupChat returns
JoinGotGroupChat(j) ==
  /\ telegram.joins[j].pc = "getGroupChat"
  /\ telegram' = [telegram EXCEPT !.joins[j].pc = "approve"]
  /\ TelegramUnchanged

\* await approveChatJoinRequest returns, and the user is told
JoinApproved(j) ==
  /\ telegram.joins[j].pc = "approve"
  /\ telegram' = [telegram EXCEPT
       !.joins[j] = [@ EXCEPT !.pc = "done", !.approved = TRUE,
                              !.messages = Append(@, ApprovedMessage)]]
  /\ TelegramUnchanged

\* getGroupChat or approveChatJoinRequest throws: the catch block
JoinFailed(j) ==
  /\ telegram.joins[j].pc \in {"getGroupChat", "approve"}
  /\ telegram' = [telegram EXCEPT
       !.joins[j] = [@ EXCEPT !.pc = "done",
                              !.messages = Append(@, ErrorJoiningMessage)]]
  /\ TelegramUnchanged

\* the else branch: the user is told to start again
JoinNotVerified(j) ==
  /\ telegram.joins[j].pc = "notVerified"
  /\ telegram' = [telegram EXCEPT
       !.joins[j] = [@ EXCEPT !.pc = "done",
                              !.messages = Append(@, NotVerifiedMessage)]]
  /\ TelegramUnchanged

NextTelegram ==
  \/ \E userId \in TelegramUserIds, chatId \in TelegramChatIds :
       InsertTelegramVerification(userId, chatId)
  \/ \E userId \in TelegramUserIds, chatId \in TelegramChatIds,
          status \in ChatMemberStatuses :
       ChatMember(userId, chatId, status)
  \/ \E j \in JoinRequests, userId \in TelegramUserIds, chatId \in TelegramChatIds :
       ChatJoinRequest(j, userId, chatId)
  \/ \E j \in JoinRequests : JoinStatusFetched(j)
  \/ \E j \in JoinRequests : JoinGotGroupChat(j)
  \/ \E j \in JoinRequests : JoinApproved(j)
  \/ \E j \in JoinRequests : JoinFailed(j)
  \/ \E j \in JoinRequests : JoinNotVerified(j)

InitTelegram ==
  /\ InitIdle
  /\ pipelines = NoPipelines

SpecTelegram == InitTelegram /\ [][NextTelegram]_vars

(***************************************************************************)
(* TelegramService: the /telegram/verify route.  The user presents a       *)
(* serialized PCD for a chat; the outcome of a call is the error it threw  *)
(* ("" for none), the verification records it inserted and whether the     *)
(* invite link was sent.                                                   *)
(***************************************************************************)
ZKEdDSAFrogPCDTypeName == "zk-eddsa-frog-pcd"

\* getEdDSAPublicKey(process.env.SERVER_EDDSA_PRIVATE_KEY)
ServerEdDSAPublicKey == "zupass-public-key"

\* the chats of the route and fetchTelegramEventsByChatId: the events linked
\* to each
VerificationChatIds == {"chat-A", "chat-unlinked"}
fetchTelegramEventsByChatId(chatId) ==
  IF chatId = "chat-A" THEN {"ev-A"} ELSE {}

\* verifyUserEventIds: the events the proof admits are those of the chat
verifyUserEventIds(eventsByChat, validEventIds) == eventsByChat = validEventIds

\* ZKEdDSAFrogPCDPackage.verify, an async function
ZKEdDSAFrogVerify(pcd) == PromiseOf(pcd.proof.valid)

\* await p
Await(p) == p.resolvesTo

\* a string argument holding the JSON text of a SerializedPCD
SerializedPCDText(type, pcd) == [js |-> "string", type |-> type, pcd |-> <<pcd>>]
\* a number where such a text is expected: JSON.parse(n).pcd is undefined
NumberArgument(n) == [js |-> "number", type |-> Undefined, pcd |-> <<>>]

\* a ZKEdDSAEventTicketPCD; watermark and attendeeSemaphoreId may be
\* Undefined, validEventIds absent
ZKTicketPCD(valid, signer, watermark, semaphoreId, validEventIds) ==
  [ claim |-> [ signer |-> signer, watermark |-> watermark,
                partialTicket |-> [attendeeSemaphoreId |-> semaphoreId],
                validEventIds |-> validEventIds ],
    proof |-> [valid |-> valid] ]

\* a ZKEdDSAFrogPCD
ZKFrogPCD(valid, signer, watermark, semaphoreId) ==
  [ claim |-> [ signerPublicKey |-> signer, watermark |-> watermark,
                partialFrog |-> [ownerSemaphoreId |-> semaphoreId] ],
    proof |-> [valid |-> valid] ]

PresentedWatermarks == TelegramUserIds \cup {Undefined}
PresentedSemaphoreIds == {"sem-1", Undefined}
PresentedEventIds == {<<>>, <<{}>>, <<{"ev-A"}>>, <<{"ev-B"}>>}

PresentedTicketPCDs ==
  { SerializedPCDText(ZKEdDSAEventTicketPCDTypeName,
                      ZKTicketPCD(valid, signer, watermark, semaphoreId, eventIds)) :
      valid \in BOOLEAN, signer \in SubmittedPublicKeys,
      watermark \in PresentedWatermarks, semaphoreId \in PresentedSemaphoreIds,
      eventIds \in PresentedEventIds }

PresentedFrogPCDs ==
  { SerializedPCDText(ZKEdDSAFrogPCDTypeName,
                      ZKFrogPCD(valid, signer, watermark, semaphoreId)) :
      valid \in BOOLEAN, signer \in SubmittedPublicKeys,
      watermark \in PresentedWatermarks, semaphoreId \in PresentedSemaphoreIds }

\* a PCD of a type the route has no verification for
PresentedOtherPCDs ==
  { SerializedPCDText(SemaphoreSignaturePCDTypeName, [proof |-> [valid |-> valid]]) :
      valid \in BOOLEAN }

Thrown(message) == [error |-> message, inserted |-> {}, inviteSent |-> FALSE]
Returned(inserted, inviteSent) ==
  [error |-> "", inserted |-> inserted, inviteSent |-> inviteSent]

\* verifyZKEdDSAEventTicketPCD: the pcd, null (<<>>), or an error
verifyZKEdDSAEventTicketPCD(serializedZKEdDSATicket) ==
  IF serializedZKEdDSATicket.pcd = <<>>
  THEN [error |-> "Deserialization error", pcd |-> <<>>]
  ELSE LET pcd == serializedZKEdDSATicket.pcd[1]
           signerMatch == pcd.claim.signer = ServerEdDSAPublicKey
       IN  IF Await(ZKEdDSAEventTicketVerify(pcd)) /\ signerMatch
           THEN [error |-> "", pcd |-> <<pcd>>]
           ELSE [error |-> "", pcd |-> <<>>]

\* (mutant) a verification that does not compare the watermark
checkTicketClaim_anyWatermark(pcd, telegramUserId, chatId) ==
  IF pcd.claim.watermark = Undefined
  THEN "Verification PCD did not contain watermark"
  ELSE IF pcd.claim.partialTicket.attendeeSemaphoreId = Undefined
  THEN "User did not reveal their semaphore id"
  ELSE IF pcd.claim.validEventIds = <<>>
  THEN "User did not submit any valid event ids"
  ELSE IF fetchTelegramEventsByChatId(chatId) = {}
  THEN "No valid events found for given chat"
  ELSE IF ~verifyUserEventIds(fetchTelegramEventsByChatId(chatId),
                              pcd.claim.validEventIds[1])
  THEN "User submitted event Ids are invalid"
  ELSE ""

\* handleTicketVerification after the PCD verified: the error of the first
\* check that fails, "" when all pass
checkTicketClaim(pcd, telegramUserId, chatId) ==
  IF pcd.claim.watermark = Undefined
  THEN "Verification PCD did not contain watermark"
  ELSE IF telegramUserId # pcd.claim.watermark
  THEN "Telegram User id does not match given watermark"
  ELSE IF pcd.claim.partialTicket.attendeeSemaphoreId = Undefined
  THEN "User did not reveal their semaphore id"
  ELSE IF pcd.claim.validEventIds = <<>>
  THEN "User did not submit any valid event ids"
  ELSE IF fetchTelegramEventsByChatId(chatId) = {}
  THEN "No valid events found for given chat"
  ELSE IF ~verifyUserEventIds(fetchTelegramEventsByChatId(chatId),
                              pcd.claim.validEventIds[1])
  THEN "User submitted event Ids are invalid"
  ELSE ""

\* handleTicketVerification: it returns nothing and sends no invite link
handleTicketVerification(serializedZKEdDSATicket, telegramUserId, chatId) ==
  LET verified == verifyZKEdDSAEventTicketPCD(serializedZKEdDSATicket)
  IN  IF verified.error # "" THEN Thrown(verified.error)
      ELSE IF verified.pcd = <<>> THEN Thrown("Could not verify PCD")
      ELSE LET error == checkTicketClaim(verified.pcd[1], telegramUserId, chatId)
           IN  IF error # "" THEN Thrown(error)
               ELSE Returned({<<telegramUserId, chatId>>}, FALSE)

\* handleFrogVerification (frogTelegramHelpers)
handleFrogVerification(dbPool, serializedZKEdDSAFrogPCD, telegramUserId, telegramChatId) ==
  IF serializedZKEdDSAFrogPCD.pcd = <<>> THEN Thrown("Deserialization error")
  ELSE LET pcd == serializedZKEdDSAFrogPCD.pcd[1]
       IN  IF pcd.claim.signerPublicKey # ServerEdDSAPublicKey
           THEN Thrown("PCD claim signer public key does not match server public key")
           ELSE IF pcd.claim.watermark # telegramUserId
           THEN Thrown("Telegram User id does not match given watermark")
           ELSE IF pcd.claim.partialFrog.ownerSemaphoreId = Undefined
           THEN Thrown("User did not reveal their semaphore id")
           ELSE IF ~Await(ZKEdDSAFrogVerify(pcd))
           THEN Thrown("Could not verify PCD")
           ELSE Returned({<<telegramUserId, telegramChatId>>}, FALSE)

\* sendInviteLink: createChatInviteLink and the message that carries it
sendInviteLink(outcome) == [outcome EXCEPT !.inviteSent = TRUE]

\* handleVerification: the two recognised types return the result of their
\* verification; the invite link is sent on the path that remains.  The
\* call of handleFrogVerification passes (serializedPCD, telegramUserId,
\* chat, telegramUsername) for (dbPool, serializedZKEdDSAFrogPCD,
\* telegramUserId, telegramChatId)
handleVerification(serializedPCD, telegramUserId, telegramChatId) ==
  IF serializedPCD.type = ZKEdDSAEventTicketPCDTypeName
  THEN handleTicketVerification(serializedPCD, telegramUserId, telegramChatId)
  ELSE IF serializedPCD.type = ZKEdDSAFrogPCDTypeName
  THEN handleFrogVerification(serializedPCD, NumberArgument(telegramUserId),
                              telegramChatId, Undefined)
  ELSE sendInviteLink(Returned({}, FALSE))

\* the user of the route; a presented watermark may name another user
VerifyingUserIds == {"tg-1"}

VerificationRequests ==
  [ serializedPCD : PresentedTicketPCDs \cup PresentedFrogPCDs \cup PresentedOtherPCDs,
    telegramUserId : VerifyingUserIds, telegramChatId : VerificationChatIds ]

\* the state after a call with the given outcome
AfterVerification(route, request, outcome) ==
  /\ telegram' = [telegram EXCEPT
       !.verifications = @ \cup outcome.inserted,
       !.left = @ \ outcome.inserted,
       !.verification = <<[route |-> route, request |-> request,
                           outcome |-> outcome]>>]
  /\ TelegramUnchanged

\* POST /telegram/verify
HandleVerification(request) ==
  AfterVerification("handleVerification", request,
    handleVerification(request.serializedPCD, request.telegramUserId,
                       request.telegramChatId))

\* handleFrogVerification, called with the arguments it declares
HandleFrogVerification(request) ==
  /\ request.serializedPCD.type = ZKEdDSAFrogPCDTypeName
  /\ AfterVerification("handleFrogVerification", request,
       handleFrogVerification("dbPool", request.serializedPCD,
                              request.telegramUserId, request.telegramChatId))

NextTelegramVerify ==
  \/ \E request \in VerificationRequests : HandleVerification(request)
  \/ \E request \in VerificationRequests : HandleFrogVerification(request)

SpecTelegramVerify == InitTelegram /\ [][NextTelegramVerify]_vars

(***************************************************************************)
(* TelegramService: anonymous messages.  A message is posted to an         *)
(* anonymous topic under the nullifier hash of the sender; the timestamps  *)
(* of a sender's messages are stored per (nullifier hash, topic).  The     *)
(* model has one anonymous topic, and time is in hours.                    *)
(***************************************************************************)
\* process.env.MAX_DAILY_ANON_TOPIC_POSTS_PER_USER ?? "3"
MaxDailyPostsPerTopic == 3
\* ONE_HOUR_MS * 24
RlDuration == 24

RateLimitExceeded == "Rate limit exceeded"
CouldNotVerifyAnonymous == "Could not verify PCD for anonymous message"

\* checkSlidingWindowRateLimit: the requests of the window are counted;
\* under the limit the current time is added to them
checkSlidingWindowRateLimit(timestamps, maxRequests, timeWindow, currentTime) ==
  LET inWindow == SelectSeq(timestamps, LAMBDA t : t > currentTime - timeWindow)
  IN  IF Len(inWindow) >= maxRequests
      THEN [rateLimitExceeded |-> TRUE, newTimestamps |-> timestamps]
      ELSE [rateLimitExceeded |-> FALSE,
            newTimestamps |-> Append(inWindow, currentTime)]

\* the ZK ticket PCDs sent with a message: they differ in the proof and in
\* the nullifier hash, and pass the checks of event ids and watermark
AnonymousMessagePCDs ==
  { [ serialized |-> SerializedPCDText(ZKEdDSAEventTicketPCDTypeName,
                       ZKTicketPCD(valid, ServerEdDSAPublicKey, "message-1",
                                   Undefined, <<{"ev-A"}>>)),
      nullifierHash |-> n ] :
      valid \in BOOLEAN, n \in NullifierHashes }

AnonUnchanged == TelegramUnchanged

\* handleSendAnonymousMessage up to its call of fetchAnonTopicNullifier
SendAnonymousMessage(k, message) ==
  /\ telegram.anon.calls[k].pc = "idle"
  /\ \A i \in AnonCalls : i < k => telegram.anon.calls[i].pc # "idle"
  /\ LET verified == verifyZKEdDSAEventTicketPCD(message.serialized)
     IN  telegram' = [telegram EXCEPT
           !.anon.calls[k] =
              IF verified.error # "" \/ verified.pcd = <<>>
              THEN [@ EXCEPT !.pc = "failed", !.error = CouldNotVerifyAnonymous,
                             !.nullifierHash = message.nullifierHash]
              ELSE [@ EXCEPT !.pc = "fetchAnonTopicNullifier",
                             !.nullifierHash = message.nullifierHash]]
  /\ AnonUnchanged

\* await fetchAnonTopicNullifier returns: without a row the call will store
\* its own timestamp, with one the rate limit decides
AnonNullifierFetched(k) ==
  /\ telegram.anon.calls[k].pc = "fetchAnonTopicNullifier"
  /\ LET call == telegram.anon.calls[k]
         nullifierData == telegram.anon.nullifiers[call.nullifierHash]
         rl == checkSlidingWindowRateLimit(
                 nullifierData[1], MaxDailyPostsPerTopic, RlDuration, now)
     IN  telegram' = [telegram EXCEPT
           !.anon.calls[k] =
              IF nullifierData = <<>>
              THEN [@ EXCEPT !.pc = "insertOrUpdateTelegramNullifier",
                             !.nullifierData = <<nullifierData>>,
                             !.newTimestamps = <<now>>]
              ELSE IF ~rl.rateLimitExceeded
              THEN [@ EXCEPT !.pc = "insertOrUpdateTelegramNullifier",
                             !.nullifierData = <<nullifierData>>,
                             !.newTimestamps = rl.newTimestamps]
              ELSE [@ EXCEPT !.pc = "failed", !.error = RateLimitExceeded,
                             !.nullifierData = <<nullifierData>>]]
  /\ AnonUnchanged

\* await insertOrUpdateTelegramNullifier returns
AnonNullifierUpdated(k) ==
  /\ telegram.anon.calls[k].pc = "insertOrUpdateTelegramNullifier"
  /\ telegram' = [telegram EXCEPT
       !.anon.nullifiers[telegram.anon.calls[k].nullifierHash] =
          <<telegram.anon.calls[k].newTimestamps>>,
       !.anon.calls[k].pc = "sendToAnonymousChannel"]
  /\ AnonUnchanged

\* await sendToAnonymousChannel returns the message posted
AnonMessageSent(k) ==
  /\ telegram.anon.calls[k].pc = "sendToAnonymousChannel"
  /\ telegram' = [telegram EXCEPT
       !.anon.posted[telegram.anon.calls[k].nullifierHash] = @ + 1,
       !.anon.calls[k] = [@ EXCEPT !.pc = "insertTelegramAnonMessage",
                                   !.sent = TRUE]]
  /\ AnonUnchanged

\* await insertTelegramAnonMessage returns
AnonMessageRecorded(k) ==
  /\ telegram.anon.calls[k].pc = "insertTelegramAnonMessage"
  /\ telegram' = [telegram EXCEPT
       !.anon.recorded[telegram.anon.calls[k].nullifierHash] = @ + 1,
       !.anon.calls[k].pc = "done"]
  /\ AnonUnchanged

NextAnonMessages ==
  \/ \E k \in AnonCalls, message \in AnonymousMessagePCDs :
       SendAnonymousMessage(k, message)
  \/ \E k \in AnonCalls : AnonNullifierFetched(k)
  \/ \E k \in AnonCalls : AnonNullifierUpdated(k)
  \/ \E k \in AnonCalls : AnonMessageSent(k)
  \/ \E k \in AnonCalls : AnonMessageRecorded(k)

SpecAnonMessages == InitTelegram /\ [][NextAnonMessages]_vars

(***************************************************************************)
(* TelegramService: reactions to anonymous messages.                       *)
(***************************************************************************)
\* the anonymous messages recorded (insertTelegramAnonMessage) and
\* fetchTelegramAnonMessagesById: the row, if any
AnonMessageTable == {[id |-> "m-1", nullifier |-> "nh-1"]}
AnonMessageIds == {"m-1", "m-unknown"}
fetchTelegramAnonMessagesById(anonMessageId) ==
  LET rows == {m \in AnonMessageTable : m.id = anonMessageId}
  IN  IF rows = {} THEN <<>> ELSE <<CHOOSE m \in rows : TRUE>>

Emojis == {"thumbs-up", "heart"}

OwnMessageError == "Cannot react to your own message"
ReactedTwiceError == "Cannot react more than once to this message"
NoSuchMessageError == "This anonymous message does not exist"

\* the key of the unique constraint
\* telegram_chat_reactions_sender_nullifier_anon_message_id_re_key
ReactionKey(nullifierHash, anonMessageId, reaction) ==
  <<nullifierHash, anonMessageId, reaction>>

\* the number of rows stored under a key
ReactionCount(reactions, key) ==
  IF key \in DOMAIN reactions THEN reactions[key] ELSE 0

\* (mutant) an author may react to their own message
isOwnMessage_never(anonMessage, nullifierHash) == FALSE

\* anonMessage.nullifier === nullifierHash
isOwnMessage(anonMessage, nullifierHash) == anonMessage.nullifier = nullifierHash

\* insertTelegramReaction: the row is added unless the unique constraint
\* rejects it
insertTelegramReaction(reactions, key) ==
  IF ReactionCount(reactions, key) > 0
  THEN [error |-> "telegram_chat_reactions_sender_nullifier_anon_message_id_re_key",
        reactions |-> reactions]
  ELSE [error |-> "", reactions |-> (key :> 1) @@ reactions]

ReactRequests ==
  [ valid : BOOLEAN, nullifierHash : NullifierHashes,
    anonMessageId : AnonMessageIds, reaction : Emojis ]

\* the ZK ticket PCD of a reaction: its watermark is the hash of the message
\* id and the reaction
ReactionPCD(request) ==
  SerializedPCDText(ZKEdDSAEventTicketPCDTypeName,
    ZKTicketPCD(request.valid, ServerEdDSAPublicKey, "reaction", Undefined,
                <<{"ev-A"}>>))

\* handleReactAnonymousMessage up to its call of fetchTelegramAnonMessagesById
ReactAnonymousMessage(k, request) ==
  /\ telegram.reacts.calls[k].pc = "idle"
  /\ \A i \in ReactCalls : i < k => telegram.reacts.calls[i].pc # "idle"
  /\ LET verified == verifyZKEdDSAEventTicketPCD(ReactionPCD(request))
     IN  telegram' = [telegram EXCEPT
           !.reacts.calls[k] =
              IF verified.error # "" \/ verified.pcd = <<>>
              THEN [@ EXCEPT !.pc = "failed", !.request = <<request>>,
                             !.error = CouldNotVerifyAnonymous]
              ELSE [@ EXCEPT !.pc = "fetchTelegramAnonMessagesById",
                             !.request = <<request>>]]
  /\ TelegramUnchanged

\* await fetchTelegramAnonMessagesById returns
ReactMessageFetched(k) ==
  /\ telegram.reacts.calls[k].pc = "fetchTelegramAnonMessagesById"
  /\ LET request == telegram.reacts.calls[k].request[1]
         anonMessage == fetchTelegramAnonMessagesById(request.anonMessageId)
     IN  telegram' = [telegram EXCEPT
           !.reacts.calls[k] =
              IF anonMessage = <<>>
              THEN [@ EXCEPT !.pc = "failed", !.error = NoSuchMessageError]
              ELSE IF isOwnMessage(anonMessage[1], request.nullifierHash)
              THEN [@ EXCEPT !.pc = "failed", !.error = OwnMessageError]
              ELSE [@ EXCEPT !.pc = "insertTelegramReaction"]]
  /\ TelegramUnchanged

\* await insertTelegramReaction returns or throws
ReactionInserted(k) ==
  /\ telegram.reacts.calls[k].pc = "insertTelegramReaction"
  /\ LET request == telegram.reacts.calls[k].request[1]
         key == ReactionKey(request.nullifierHash, request.anonMessageId,
                            request.reaction)
         inserted == insertTelegramReaction(telegram.reacts.reactions, key)
     IN  telegram' = [telegram EXCEPT
           !.reacts.reactions = inserted.reactions,
           !.reacts.calls[k] =
              IF inserted.error # ""
              THEN [@ EXCEPT !.pc = "failed", !.error = ReactedTwiceError,
                             !.duplicateAtInsert =
                                ReactionCount(telegram.reacts.reactions, key) > 0]
              ELSE [@ EXCEPT !.pc = "done",
                             !.duplicateAtInsert =
                                ReactionCount(telegram.reacts.reactions, key) > 0]]
  /\ TelegramUnchanged

NextReactions ==
  \/ \E k \in ReactCalls, request \in ReactRequests :
       ReactAnonymousMessage(k, request)
  \/ \E k \in ReactCalls : ReactMessageFetched(k)
  \/ \E k \in ReactCalls : ReactionInserted(k)

SpecReactions == InitTelegram /\ [][NextReactions]_vars

(***************************************************************************)
(* instantiatePipeline: a pipeline is constructed by the type of its       *)
(* definition, started, and returned.                                      *)
(***************************************************************************)
PipelineTypes == {"Lemonade", "Pretix", "CSV"}
\* the definitions a caller can pass: of the three types and of another
PipelineDefinitions == [type : PipelineTypes \cup {"Other"}]

isLemonadePipelineDefinition(definition) == definition.type = "Lemonade"
isPretixPipelineDefinition(definition) == definition.type = "Pretix"
isCSVPipelineDefinition(definition) == definition.type = "CSV"

CouldNotInstantiate == "couldn't instantiate pipeline for configuration"

\* new LemonadePipeline(...), new PretixPipeline(...), new CSVPipeline(...):
\* the pipeline, or undefined (<<>>)
constructPipeline(definition) ==
  IF isLemonadePipelineDefinition(definition)
  THEN <<[class |-> "LemonadePipeline", start |-> "notCalled"]>>
  ELSE IF isPretixPipelineDefinition(definition)
  THEN <<[class |-> "PretixPipeline", start |-> "notCalled"]>>
  ELSE IF isCSVPipelineDefinition(definition)
  THEN <<[class |-> "CSVPipeline", start |-> "notCalled"]>>
  ELSE <<>>

\* (mutant) start() is called and not awaited
startAwaited_fireAndForget(pipeline) == pipeline.start # "notCalled"

\* await pipeline.start(): the call goes on when start() has completed
startAwaited(pipeline) == pipeline.start = "completed"

InstantiateUnchanged ==
  /\ UNCHANGED <<now, ticketsDB, cache, pendingWrites, calls, req>>
  /\ UNCHANGED <<verifyVars, checkinVars, redactVars>>
  /\ UNCHANGED <<frogcrypto, pipelines, ticketVerification, telegram, unredaction>>

\* instantiatePipeline up to `await pipeline.start()`, or to its throw
InstantiatePipeline(i, definition) ==
  /\ instantiations[i].pc = "idle"
  /\ \A j \in Instantiations : j < i => instantiations[j].pc # "idle"
  /\ LET pipeline == constructPipeline(definition)
     IN  instantiations' = [instantiations EXCEPT ![i] =
           IF pipeline # <<>>
           THEN [@ EXCEPT !.pc = "awaitStart", !.definition = <<definition>>,
                          !.pipeline = <<[pipeline[1] EXCEPT !.start = "pending"]>>]
           ELSE [@ EXCEPT !.pc = "failed", !.definition = <<definition>>,
                          !.error = CouldNotInstantiate]]
  /\ InstantiateUnchanged

\* start() of the pipeline of call i completes
PipelineStarted(i) ==
  /\ instantiations[i].pipeline # <<>>
  /\ instantiations[i].pipeline[1].start = "pending"
  /\ instantiations' = [instantiations EXCEPT ![i].pipeline[1].start = "completed"]
  /\ InstantiateUnchanged

\* start() of the pipeline of call i rejects
PipelineStartFailed(i) ==
  /\ instantiations[i].pipeline # <<>>
  /\ instantiations[i].pipeline[1].start = "pending"
  /\ instantiations' = [instantiations EXCEPT ![i].pipeline[1].start = "rejected"]
  /\ InstantiateUnchanged

\* return pipeline
InstantiateReturn(i) ==
  /\ instantiations[i].pc = "awaitStart"
  /\ startAwaited(instantiations[i].pipeline[1])
  /\ instantiations' = [instantiations EXCEPT ![i] =
       [@ EXCEPT !.pc = "done", !.returned = instantiations[i].pipeline,
                 !.startedAtReturn =
                    (instantiations[i].pipeline[1].start = "completed")]]
  /\ InstantiateUnchanged

\* the await throws what start() rejected with
InstantiateStartThrew(i) ==
  /\ instantiations[i].pc = "awaitStart"
  /\ instantiations[i].pipeline[1].start = "rejected"
  /\ instantiations' = [instantiations EXCEPT ![i] =
       [@ EXCEPT !.pc = "failed", !.error = "start() rejected"]]
  /\ InstantiateUnchanged

NextInstantiate ==
  \/ \E i \in Instantiations, definition \in PipelineDefinitions :
       InstantiatePipeline(i, definition)
  \/ \E i \in Instantiations : PipelineStarted(i)
  \/ \E i \in Instantiations : PipelineStartFailed(i)
  \/ \E i \in Instantiations : InstantiateReturn(i)
  \/ \E i \in Instantiations : InstantiateStartThrew(i)

SpecInstantiate == InitTelegram /\ [][NextInstantiate]_vars

(***************************************************************************)
(* The holder's side: the collection a client applies the actions of a     *)
(* response to.  A collection is the list of its entries, each a           *)
(* serialized artifact with the folder it is filed under, one per id.      *)
(***************************************************************************)
IdOf(serialized) == JsonParse(serialized.pcd).id

Entry(serialized, folder) ==
  [id |-> IdOf(serialized), folder |-> folder, pcd |-> serialized]

IsPrefix(a, b) == Len(a) <= Len(b) /\ SubSeq(b, 1, Len(a)) = a

\* the entries a DeleteFolder action removes
InDeletedFolder(entry, action) ==
  \/ entry.folder = action.folder
  \/ action.recursive /\ IsPrefix(action.folder, entry.folder)

\* add an entry, in the place of the entry with the same id if there is one
Upsert(collection, entry) ==
  IF \E i \in 1..Len(collection) : collection[i].id = entry.id
  THEN [i \in 1..Len(collection) |->
          IF collection[i].id = entry.id THEN entry ELSE collection[i]]
  ELSE Append(collection, entry)

RECURSIVE UpsertAll(_, _, _)
UpsertAll(collection, pcds, folder) ==
  IF pcds = <<>> THEN collection
  ELSE UpsertAll(Upsert(collection, Entry(Head(pcds), folder)), Tail(pcds), folder)

\* (mutant) DeleteFolder that stops after the first entry it removes
ApplyAction_deleteStopsEarly(collection, action) ==
  LET kept(entry) == ~InDeletedFolder(entry, action)
      first == CHOOSE i \in 1..(Len(collection) + 1) :
                 /\ i <= Len(collection) => ~kept(collection[i])
                 /\ \A j \in 1..(i - 1) : kept(collection[j])
  IN  IF action.type = DeleteFolder
      THEN [i \in 1..(Len(collection) - (IF first <= Len(collection) THEN 1 ELSE 0)) |->
              IF i < first THEN collection[i] ELSE collection[i + 1]]
      ELSE UpsertAll(collection, action.pcds, action.folder)

\* what one action does to the collection
ApplyAction(collection, action) ==
  LET kept(entry) == ~InDeletedFolder(entry, action)
  IN  IF action.type = DeleteFolder
      THEN SelectSeq(collection, kept)
      ELSE UpsertAll(collection, action.pcds, action.folder)

RECURSIVE ApplyActions(_, _)
ApplyActions(collection, actions) ==
  IF actions = <<>> THEN collection
  ELSE ApplyActions(ApplyAction(collection, Head(actions)), Tail(actions))

\* the contents of a folder
FolderContents(collection, folder) ==
  LET inFolder(entry) == entry.folder = folder
  IN  SelectSeq(collection, inFolder)

(***************************************************************************)
(* Properties of ticket issuance.                                          *)
(***************************************************************************)
\* two ITicketData that differ at most in timestampSigned (a key that
\* JSON left out stands for undefined)
SameExceptTimestampSigned(a, b) ==
  \A k \in (DOMAIN a \cup DOMAIN b) \ {"timestampSigned"} :
    IF k \in DOMAIN a /\ k \in DOMAIN b THEN a[k] = b[k]
    ELSE /\ k \in OptionalKeys
         /\ k \in DOMAIN a => a[k] = Undefined
         /\ k \in DOMAIN b => b[k] = Undefined

\* the call has read the cache
LookedUp(c) == calls[c].pc \in {"signing", "done", "failed"}

\* the cache keys that hold an artifact that deserializes
ArtifactKeys ==
  {k \in DOMAIN cache : CanDeserialize(JsonParse(cache[k]).pcd)}

CachedArtifact(k) == deserialize(JsonParse(cache[k]).pcd)

\* two invocations that were in flight at the same time
Concurrent(c1, c2) ==
  /\ c1 # c2
  /\ calls[c1].pc # "idle" /\ calls[c2].pc # "idle"
  /\ c1 \notin calls[c2].prior /\ c2 \notin calls[c1].prior

\* C1: of the concurrent getOrGenerateTicket calls for one fingerprint, at
\* most one invokes the signer (ticketDataToTicketPCD)
C1_ConcurrentMissesSignOnce ==
  \A c1, c2 \in Calls :
    ( /\ Concurrent(c1, c2)
      /\ SameExceptTimestampSigned(calls[c1].ticketData, calls[c2].ticketData) )
    => ~(calls[c1].signed /\ calls[c2].signed)

\* C2: a call made after an earlier call for the same non-volatile ticket
\* data has returned gets the same serialized artifact, and the signer is
\* invoked at most once by the two
C2_SecondCallReusesArtifact ==
  \A c1, c2 \in Calls :
    ( /\ c1 \in calls[c2].prior
      /\ calls[c1].pc = "done" /\ calls[c2].pc = "done"
      /\ SameExceptTimestampSigned(calls[c1].ticketData, calls[c2].ticketData) )
    => /\ serialize(calls[c1].result[1]) = serialize(calls[c2].result[1])
       /\ ~(calls[c1].signed /\ calls[c2].signed)

\* C3: ticket data that differ only in timestampSigned have the same cache
\* key, so a lookup made at a later time is made under the key of the
\* artifact stored for the unchanged ticket
C3_KeyIgnoresTimestampSigned ==
  /\ \A c1, c2 \in Calls :
       ( /\ LookedUp(c1) /\ LookedUp(c2)
         /\ SameExceptTimestampSigned(calls[c1].ticketData, calls[c2].ticketData) )
       => calls[c1].key = calls[c2].key
  /\ \A c \in Calls, k \in ArtifactKeys :
       ( /\ LookedUp(c)
         /\ SameExceptTimestampSigned(calls[c].ticketData,
                                      CachedArtifact(k).claim.ticket) )
       => calls[c].key = k

\* a call that found the artifact signed at another time for its ticket
C3_Witness ==
  \E c \in Calls :
    /\ calls[c].hit /\ ~calls[c].signed
    /\ calls[c].result[1].claim.ticket.timestampSigned
         # calls[c].ticketData.timestampSigned

\* what getCachedTicket read is an artifact that deserializes
FoundArtifact(c) ==
  /\ calls[c].found # <<>>
  /\ CanDeserialize(JsonParse(calls[c].found[1]).pcd)

\* C4: a call that reads a deserializable artifact under its fingerprint
\* returns that artifact, does not invoke the signer and does not call
\* cacheTicket
C4_CacheHitReturnsStored ==
  \A c \in Calls :
    (LookedUp(c) /\ FoundArtifact(c))
    => /\ calls[c].pc = "done"
       /\ calls[c].result = <<deserialize(JsonParse(calls[c].found[1]).pcd)>>
       /\ ~calls[c].signed
       /\ ~calls[c].cacheTicketCalled

C4_Witness ==
  \E c \in Calls : LookedUp(c) /\ FoundArtifact(c) /\ calls[c].hit

\* C5: a call whose signing fails rejects, returns no ticket and does not
\* call cacheTicket; a later call for the same fingerprint that misses the
\* cache invokes the signer again
C5_SigningFailureNotCached ==
  /\ \A c \in Calls :
       calls[c].signError
       => /\ calls[c].pc = "failed"
          /\ calls[c].result = <<>>
          /\ ~calls[c].cacheTicketCalled
  /\ \A c1, c2 \in Calls :
       ( /\ calls[c1].signError /\ c1 \in calls[c2].prior
         /\ LookedUp(c2) /\ calls[c2].key = calls[c1].key
         /\ ~calls[c2].hit )
       => calls[c2].signed

C5_Witness ==
  \E c1, c2 \in Calls :
    /\ calls[c1].signError /\ calls[c1].pc = "failed"
    /\ c1 \in calls[c2].prior /\ calls[c2].key = calls[c1].key
    /\ calls[c2].signed /\ calls[c2].pc = "done"
    /\ calls[c1].key \notin DOMAIN cache

(***************************************************************************)
(* Properties of the feed handlers.                                        *)
(***************************************************************************)
Answered == req.pc \in {"responded", "rejected"}

\* C7: every feed handler answers a poll request without a credential with
\* the missing-credential error, never with a response
C7_MissingCredentialRejected ==
  (Answered /\ req.pcd = <<>>)
    => (req.pc = "rejected" /\ req.error = "Missing credential")

\* C8: a handler that hit an error after the credential check returns an
\* empty action list
C8_ErrorLeavesNoActions ==
  (req.pc = "responded" /\ req.failedAfterCheck) => req.actions = <<>>

\* C9: unless the verification of the presented credential resolved to
\* true, the request has made no getOrGenerateTicket call, holds no
\* artifact and returns no action
C9_NoArtifactsBeforeVerification ==
  (req.pc # "idle" /\ req.pcd # <<>> /\ vcalls[FeedVerifyCall].result # <<TRUE>>)
    => /\ \A c \in FeedCalls : calls[c].pc = "idle"
       /\ req.issued = <<>>
       /\ req.actions = <<>>

C9_Witness ==
  /\ req.pc = "responded"
  /\ req.pcd # <<>>
  /\ vcalls[FeedVerifyCall].pc \in {"done", "failed"}
  /\ vcalls[FeedVerifyCall].result # <<TRUE>>

\* a DeleteFolder action that empties the folder
Covers(action, folder) ==
  /\ action.type = DeleteFolder
  /\ \/ action.folder = folder
     \/ action.recursive /\ IsPrefix(action.folder, folder)

SuccessfulReplaceResponse ==
  /\ req.pc = "responded"
  /\ req.verified
  /\ ~req.failedAfterCheck
  /\ req.feed \in {"Devconnect", "Email", "Zuzalu_23", "Zuconnect_23"}

\* the artifacts the ReplaceInFolder actions of the response carry
Carried ==
  LET isReplace(a) == a.type = ReplaceInFolder
      replaces == SelectSeq(req.actions, isReplace)
  IN  Flatten([i \in 1..Len(replaces) |-> replaces[i].pcds])

\* C10: in a successful response of the Devconnect, Email, Zuzalu and
\* Zuconnect feeds every ReplaceInFolder comes after a DeleteFolder that
\* covers its folder, and the ReplaceInFolder actions carry exactly the
\* artifacts issued for the identity, one for each of its tickets
C10_DeleteThenReplaceAll ==
  SuccessfulReplaceResponse =>
    /\ \A i \in 1..Len(req.actions) :
         req.actions[i].type = ReplaceInFolder =>
           \E j \in 1..(i - 1) : Covers(req.actions[j], req.actions[i].folder)
    /\ Len(Carried) = Len(req.issued)
    /\ IF req.feed = "Email"
       THEN {Carried[i] : i \in 1..Len(Carried)} =
              {SerializeEmailPCD(req.issued[i]) : i \in 1..Len(req.issued)}
       ELSE /\ {Carried[i] : i \in 1..Len(Carried)} =
                 {serialize(req.issued[i]) : i \in 1..Len(req.issued)}
            /\ {deserialize(Carried[i].pcd).claim.ticket.ticketId :
                  i \in 1..Len(Carried)} =
                 {req.tickets[i].ticketId : i \in 1..Len(req.tickets)}
            /\ Len(Carried) = Len(req.tickets)

C10_Witness ==
  /\ SuccessfulReplaceResponse
  /\ req.feed = "Devconnect"
  /\ \E i \in 1..Len(req.actions) :
       /\ req.actions[i].type = ReplaceInFolder
       /\ Len(req.actions[i].folder) = 2
       /\ req.actions[i].pcds # <<>>
  /\ Len(Carried) = 2

\* the folders a feed replaces the contents of
OwnedFolders(feed) ==
  CASE feed = "Devconnect" -> {<<"Devconnect">>, <<"SBC SRW">>}
    [] feed = "Email" -> {<<"Email">>}
    [] feed = "Zuzalu_23" -> {<<"Zuzalu '23">>}
    [] feed = "Zuconnect_23" -> {<<"ZuConnect">>}
    [] OTHER -> {}

\* the identity of the verified credential has no user row, or the user
\* holds no ticket of the feed
QualifiesForNothing ==
  \/ fetchUserByCommitment(req.pcd[1].pcd.identityCommitment) = <<>>
  \/ req.feed \in TicketFeeds /\ req.tickets = <<>>

\* C11: a poll with a verified credential whose identity qualifies for no
\* artifact is answered with a DeleteFolder for every folder the feed owns
\* and without any artifact
C11_NothingIssuedStillDeletes ==
  (SuccessfulReplaceResponse /\ QualifiesForNothing) =>
    /\ \A folder \in OwnedFolders(req.feed) :
         \E j \in 1..Len(req.actions) : Covers(req.actions[j], folder)
    /\ \A i \in 1..Len(req.actions) : req.actions[i].pcds = <<>>

\* a user without tickets of the feed polled it
C11_Witness ==
  /\ SuccessfulReplaceResponse
  /\ QualifiesForNothing
  /\ fetchUserByCommitment(req.pcd[1].pcd.identityCommitment) # <<>>
  /\ req.feed = "Zuconnect_23"

\* the collections a holder may start from: stale artifacts in the folder,
\* an artifact filed elsewhere, and the first artifact of the response,
\* under its id, filed elsewhere
StartCollections(folder) ==
  LET stale(n) == [id |-> <<"stale", n>>, folder |-> folder, pcd |-> <<>>]
      other == [id |-> <<"other">>, folder |-> <<"Other">>, pcd |-> <<>>]
      moved == IF Carried = <<>> THEN <<>>
               ELSE <<Entry(Carried[1], <<"Other">>)>>
      all == <<stale(1), other, stale(2)>> \o moved
  IN  { LET chosen(entry) == \E i \in picked : all[i] = entry
        IN  SelectSeq(all, chosen) : picked \in SUBSET (1..Len(all)) }

\* C12: the actions of a response, applied twice in a row to a collection,
\* leave every folder they replace with the contents one application leaves
C12_ActionsConverge ==
  SuccessfulReplaceResponse =>
    \A i \in 1..Len(req.actions) :
      req.actions[i].type = ReplaceInFolder =>
        LET folder == req.actions[i].folder
        IN  \A collection \in StartCollections(folder) :
              LET once == ApplyActions(collection, req.actions)
              IN  /\ FolderContents(ApplyActions(once, req.actions), folder)
                       = FolderContents(once, folder)
                  /\ FolderContents(once, folder)
                       = [k \in 1..Len(req.actions[i].pcds) |->
                            Entry(req.actions[i].pcds[k], folder)]

\* a response that replaces a folder with one artifact
C12_Witness ==
  /\ SuccessfulReplaceResponse
  /\ req.feed = "Zuzalu_23"
  /\ Len(req.actions) = 2
  /\ req.actions[1].type = DeleteFolder
  /\ req.actions[2].type = ReplaceInFolder
  /\ Len(req.actions[2].pcds) = 1

(***************************************************************************)
(* Properties of the online check-in.                                      *)
(***************************************************************************)
Rejected(k) == checkins[k].result # <<>> /\ ~checkins[k].result[1].success

\* checkDevconnectTicketById of the request read a row that is neither
\* revoked nor consumed
CheckedLive(k) ==
  /\ checkins[k].checked # <<>>
  /\ checkins[k].checked[1] # <<>>
  /\ ~checkins[k].checked[1][1].is_deleted
  /\ ~checkins[k].checked[1][1].is_consumed

InvalidCredential(k) ==
  \/ ~VerifySignature(checkins[k].checkerProof[1])
  \/ checkins[k].checkerProof[1].pcd.signedMessage # ISSUANCE_STRING

\* the checker is a known user with a superuser permission for the event of
\* the row that was checked
Permitted(k) ==
  LET checker == fetchUserByCommitment(
                   checkins[k].checkerProof[1].pcd.identityCommitment)
  IN  /\ checker # <<>>
      /\ relevantSuperUserPermission(checker[1], checkins[k].checked[1][1])

\* C14: however the check-in requests for one ticket interleave, at most one
\* of them consumes it, and the row keeps the checker of that request
C14_ConsumedAtMostOnce ==
  \A t \in DOMAIN ticketsDB :
    LET consumers == {k \in CheckinCalls :
                        checkins[k].consumed /\ checkins[k].ticketId = t}
    IN  /\ Cardinality(consumers) <= 1
        /\ \A k \in consumers :
             /\ ticketsDB[t].is_consumed
             /\ ticketsDB[t].checker =
                  UserEmail[checkins[k].checkerProof[1].pcd.identityCommitment]
             /\ ~checkins[k].checked[1][1].is_consumed

\* two requests for one ticket both passed the check; one consumed it
C14_Witness ==
  \E k1, k2 \in CheckinCalls :
    /\ k1 # k2
    /\ checkins[k1].ticketId = checkins[k2].ticketId
    /\ checkins[k1].consumed
    /\ CheckedLive(k2) /\ ~InvalidCredential(k2) /\ Permitted(k2)
    /\ checkins[k2].pc = "done"

\* C15: a check-in request for a ticket that a request with the same checker
\* proof has consumed succeeds as a no-op (store errors aside)
C15_RepeatedCheckinSucceeds ==
  \A k1, k2 \in CheckinCalls :
    ( /\ k1 # k2
      /\ checkins[k1].consumed
      /\ checkins[k2].ticketId = checkins[k1].ticketId
      /\ checkins[k2].checkerProof = checkins[k1].checkerProof
      /\ checkins[k2].result # <<>>
      /\ checkins[k2].checked # <<>>
      /\ ~checkins[k2].result[1].thrown )
    => checkins[k2].result[1].success

\* C16: a request consumes the ticket only if the row it checked existed, was
\* neither revoked nor consumed, the checker proof verified over the issuance
\* string and the checker was a user with a superuser permission for the
\* row's event; a rejected request has not changed the row
C16_ConsumesOnlyWhenAllowed ==
  \A k \in CheckinCalls :
    /\ checkins[k].consumed =>
         CheckedLive(k) /\ ~InvalidCredential(k) /\ Permitted(k)
    /\ Rejected(k) => ~checkins[k].consumed

\* a permitted request consumed a ticket and another was turned away for
\* the lack of a permission
C16_Witness ==
  \E k1, k2 \in CheckinCalls :
    /\ checkins[k1].consumed
    /\ Rejected(k2)
    /\ CheckedLive(k2) /\ ~InvalidCredential(k2) /\ ~Permitted(k2)

\* rejected for the credential, resp. for the lack of a permission
CredentialRejected(k) ==
  /\ Rejected(k) /\ ~checkins[k].result[1].thrown
  /\ CheckedLive(k) /\ InvalidCredential(k)
PermissionRejected(k) ==
  /\ Rejected(k) /\ ~checkins[k].result[1].thrown
  /\ CheckedLive(k) /\ ~InvalidCredential(k) /\ ~Permitted(k)

\* C17: a rejection for an invalid credential and a rejection for a missing
\* permission never carry the same error name
C17_InvalidCredentialDistinctName ==
  \A k1, k2 \in CheckinCalls :
    (CredentialRejected(k1) /\ PermissionRejected(k2))
      => checkins[k1].result[1].name # checkins[k2].result[1].name

\* C18: a check-in request ends with success or with a failure that carries
\* one of the error names (NotSuperuser is the name the code gives
\* NotAuthorized)
C18_StructuredResult ==
  \A k \in CheckinCalls :
    checkins[k].result # <<>> =>
      \/ checkins[k].result[1].success
      \/ /\ ~checkins[k].result[1].thrown
         /\ checkins[k].result[1].name \in
              {"InvalidTicket", "AlreadyCheckedIn", "TicketRevoked",
               "NotAuthorized", "NotSuperuser", "ServerError"}

(***************************************************************************)
(* Properties of check-in and feed together.                               *)
(***************************************************************************)
\* the tickets the artifacts of the response carry
CarriedTickets ==
  {deserialize(Carried[i].pcd).claim.ticket : i \in 1..Len(Carried)}

\* C13: a poll that arrives after the check-in of a ticket of the holder
\* returned success is answered with an artifact of that ticket, and every
\* artifact of that ticket in the response has the consumed flag set
C13_PollAfterCheckinIsConsumed ==
  (SuccessfulReplaceResponse /\ req.feed = "Devconnect") =>
    \A t \in req.checkedIn :
      /\ \E ticket \in CarriedTickets : ticket.ticketId = t
      /\ \A ticket \in CarriedTickets :
           ticket.ticketId = t => ticket.isConsumed

\* the cache held the artifact signed before the check-in, and the poll
\* after the check-in was answered
C13_Witness ==
  /\ SuccessfulReplaceResponse
  /\ "t1" \in req.checkedIn
  /\ \E key \in DOMAIN cache :
       /\ CanDeserialize(JsonParse(cache[key]).pcd)
       /\ LET ticket == deserialize(JsonParse(cache[key]).pcd).claim.ticket
          IN  ticket.ticketId = "t1" /\ ~ticket.isConsumed

(***************************************************************************)
(* Properties of the offline check-in upload.                              *)
(***************************************************************************)
UploadAnswered == upload.pc = "done"

\* C19: an upload is answered with success whatever checker proof and ids
\* it carries (an exception of the verifier aside)
C19_UploadAlwaysSucceeds ==
  (UploadAnswered /\ vcalls[UploadVerifyCall].pc # "failed") =>
    upload.result[1].success

\* the row the batch found for its i-th id could be checked in by the
\* uploader: it was there, neither revoked nor consumed, and of an event the
\* uploader is superuser of
ValidInBatch(i) ==
  LET before == upload.log[i].before
      checker == fetchUserByCommitment(
                   upload.checkerProof[1].pcd.identityCommitment)
  IN  /\ before # <<>>
      /\ ~before[1].is_deleted
      /\ ~before[1].is_consumed
      /\ checker # <<>>
      /\ relevantSuperUserPermission(checker[1], before[1])

\* C20: an upload that was answered has dealt with every id of its batch:
\* an id that was valid when its turn came is consumed by the uploader,
\* whatever ids came before it; an id that was not is left as it was found
C20_IdsValidatedIndependently ==
  (UploadAnswered /\ upload.result[1].success) =>
    /\ Len(upload.log) = Len(upload.ids)
    /\ \A i \in 1..Len(upload.ids) :
         LET id == upload.ids[i]
         IN  /\ upload.log[i].id = id
             /\ IF ValidInBatch(i)
                THEN /\ ticketsDB[id].is_consumed
                     /\ ticketsDB[id].checker =
                          UserEmail[upload.checkerProof[1].pcd.identityCommitment]
                ELSE id \in DOMAIN ticketsDB =>
                       ticketsDB[id] = upload.log[i].before[1]

\* a batch whose first id was skipped and whose second id was consumed
C20_Witness ==
  /\ UploadAnswered /\ upload.result[1].success
  /\ Len(upload.ids) >= 2
  /\ ~ValidInBatch(1)
  /\ ValidInBatch(2)
  /\ ticketsDB[upload.ids[2]].is_consumed

(***************************************************************************)
(* Properties of the ticket tables.                                        *)
(***************************************************************************)
\* C21: a ticket that is consumed and not deleted stays in the table,
\* consumed, with the checker and the check-in time it has, whatever the
\* next operation is
C21_ConsumptionMonotonic ==
  [][\A id \in DOMAIN ticketsDB :
       (ticketsDB[id].is_consumed /\ ~ticketsDB[id].is_deleted) =>
         /\ id \in DOMAIN ticketsDB'
         /\ ticketsDB'[id].is_consumed
         /\ ticketsDB'[id].checker = ticketsDB[id].checker
         /\ ticketsDB'[id].zupass_checkin_timestamp =
              ticketsDB[id].zupass_checkin_timestamp]_vars

\* the rows of devconnect_pretix_tickets under the key of a redacted ticket
RowsUnderKey(db, redactedTicket) ==
  {id \in DOMAIN db : ConflictKey(db[id]) = ConflictKey(redactedTicket)}

\* C22: when agreeTermsAndUnredactTickets(email) commits, every ticket that
\* was redacted under the hash of the email is in devconnect_pretix_tickets
\* under its key, with the email, not deleted, with the consumed flag, the
\* checker and the Pretix check-in time it had, and no redacted ticket with
\* that hash is left
C22_UnredactRestoresTickets ==
  [][\A email \in UserEmails, version \in TermsVersions :
       AgreeTermsAndUnredactTickets(email, version) =>
         /\ \A redactedTicket \in redactedTickets :
              redactedTicket.hashed_email = getHash(email) =>
                /\ Cardinality(RowsUnderKey(ticketsDB', redactedTicket)) = 1
                /\ \A id \in RowsUnderKey(ticketsDB', redactedTicket) :
                     /\ ticketsDB'[id].email = email
                     /\ ~ticketsDB'[id].is_deleted
                     /\ ticketsDB'[id].is_consumed = redactedTicket.is_consumed
                     /\ ticketsDB'[id].checker = redactedTicket.checker
                     /\ ticketsDB'[id].pretix_checkin_timestamp =
                          redactedTicket.pretix_checkin_timestamp
         /\ \A row \in redactedTickets' : row.hashed_email # getHash(email)]_vars

\* bob agreed to the terms: ticket t1 and a new row carry his email, and no
\* redacted ticket of his is left
C22_Witness ==
  /\ termsAgreed["bob@x"] \in TermsVersions
  /\ ticketsDB["t1"].email = "bob@x"
  /\ \E id \in DOMAIN ticketsDB \ TicketIds : ticketsDB[id].email = "bob@x"
  /\ \A row \in redactedTickets : row.hashed_email # getHash("bob@x")

\* no two rows of a table under one (event config id, position id)
UniqueKeys ==
  /\ \A r1, r2 \in redactedTickets :
       ConflictKey(r1) = ConflictKey(r2) => r1 = r2
  /\ \A id1, id2 \in DOMAIN ticketsDB :
       ConflictKey(ticketsDB[id1]) = ConflictKey(ticketsDB[id2]) => id1 = id2

\* C23: both tables hold one row per (event config id, position id); an
\* upsert leaves one row under its key, the one it wrote, adds a row only if
\* the key was new, and changes nothing when it is repeated
C23_OneRecordPerKey ==
  /\ UniqueKeys
  /\ \A params \in RedactedParams :
       LET after == upsertDevconnectPretixRedactedTicket(redactedTickets,
                                                         params)
           held == \E row \in redactedTickets :
                     ConflictKey(row) = ConflictKey(params)
       IN  /\ {row \in after : ConflictKey(row) = ConflictKey(params)} = {params}
           /\ Cardinality(after) =
                Cardinality(redactedTickets) + (IF held THEN 0 ELSE 1)
           /\ upsertDevconnectPretixRedactedTicket(after, params) = after
  /\ \A params \in RedactedParams, email \in UserEmails :
       LET after == unredactTicket(ticketsDB, email, params)
           held == RowsUnderKey(ticketsDB, params) # {}
       IN  /\ Cardinality(RowsUnderKey(after, params)) = 1
           /\ Cardinality(DOMAIN after) =
                Cardinality(DOMAIN ticketsDB) + (IF held THEN 0 ELSE 1)
           /\ unredactTicket(after, email, params) = after

\* both tables hold rows written by upserts, one of them over an older row
C23_Witness ==
  /\ Cardinality(redactedTickets) = Cardinality(RedactedPositions)
  /\ ticketsDB["t1"].full_name = ""
  /\ DOMAIN ticketsDB # TicketIds

(***************************************************************************)
(* Properties of the FrogCrypto feed routes.                               *)
(***************************************************************************)
FrogFeedOf(feedId) == {f \in frogcrypto.feeds : f.id = feedId}

\* C24: the listing never holds a private feed; a hosted feed, private or
\* not, is the answer of the lookup by its id and serves the poll that
\* names it; the lookup of an id the host does not have is answered 404
\* with no listing.
C24_PrivateFeedsUnlistedButResolvable ==
  \A r \in {frogcrypto.response[i] : i \in DOMAIN frogcrypto.response} :
    /\ r.kind = "list" =>
         /\ r.status = 200
         /\ \A f \in r.body.feeds : ~f.private
         /\ \A f \in frogcrypto.feeds : ~f.private => f \in r.body.feeds
    /\ (r.kind = "single" /\ FrogFeedOf(r.feedId) # {}) =>
         /\ r.status = 200
         /\ r.body.feeds = FrogFeedOf(r.feedId)
    /\ (r.kind = "single" /\ FrogFeedOf(r.feedId) = {}) =>
         /\ r.status = 404
         /\ r.body = <<>>
    /\ (r.kind = "poll" /\ FrogFeedOf(r.feedId) # {}) =>
         /\ r.status = 200
         /\ r.body.servedBy = r.feedId

\* a private feed is looked up by its id and found
C24_Witness ==
  /\ frogcrypto.response # <<>>
  /\ frogcrypto.response[1].kind = "single"
  /\ frogcrypto.response[1].status = 200
  /\ \E f \in frogcrypto.response[1].body.feeds : f.private
  /\ \E f \in frogcrypto.feeds : ~f.private

(***************************************************************************)
(* Properties of the sync loop.                                            *)
(***************************************************************************)
RedactedIds(p, table) ==
  {row.position_id : row \in {r \in table : r.pretix_events_config_id = p}}

\* C25: when a cycle completes the key set of the Atom Store is the key set
\* of the records the cycle fetched, and stays so until the next cycle
\* completes; an atom that is absent from them is deleted unless it is
\* consumed, and then it is kept among the redacted tickets, which a sync
\* never removes.
C25_SyncConvergence ==
  /\ [](\A p \in DOMAIN pipelines :
          pipelines[p].synced # <<>> =>
            pipelines[p].atoms = pipelines[p].synced[1])
  /\ [][\A p \in DOMAIN pipelines :
          pipelines'[p].completed = pipelines[p].completed + 1 =>
            LET fetched == pipelines'[p].synced[1]
                gone == pipelines[p].atoms \ fetched
            IN  /\ pipelines'[p].atoms = fetched
                /\ \A id \in gone \cap pipelines[p].consumed :
                     id \in RedactedIds(p, pipelines'[p].redacted)
                /\ \A id \in gone \ pipelines[p].consumed :
                     id \in RedactedIds(p, pipelines'[p].redacted)
                       => id \in RedactedIds(p, pipelines[p].redacted)
                /\ pipelines[p].redacted \subseteq pipelines'[p].redacted]_vars

\* two cycles have completed, the second over records that lack a consumed
\* atom of the first: the atom is redacted and no longer in the store
C25_Witness ==
  \E p \in DOMAIN pipelines :
    /\ pipelines[p].completed = 2
    /\ pipelines[p].cycles = <<>>
    /\ pipelines[p].atoms # {}
    /\ \E id \in pipelines[p].consumed :
         /\ id \notin pipelines[p].atoms
         /\ id \in RedactedIds(p, pipelines[p].redacted)

\* C26: a cycle that fails while fetching or mapping leaves the Atom Store
\* and the redacted tickets as they were when the cycle began, the
\* pipeline is still running, and the next tick can start a cycle.
C26_FailedCycleLeavesStore ==
  [][\A p \in DOMAIN pipelines :
       pipelines'[p].failed = pipelines[p].failed + 1 =>
         \E n \in DOMAIN pipelines[p].cycles :
           /\ n \notin DOMAIN pipelines'[p].cycles
           /\ pipelines[p].cycles[n].step \in {"Fetch", "Map"}
           /\ pipelines'[p].atoms = pipelines[p].cycles[n].before
           /\ pipelines'[p].redacted = pipelines[p].redacted
           /\ pipelines'[p].synced = pipelines[p].synced
           /\ pipelines'[p].state = "Running"
           /\ pipelines'[p].started < MaxCycles
                => canStartCycle(pipelines'[p])]_vars

\* after a cycle failed over a loaded store, the cycle of the next tick is
\* about to apply its batch
C26_Witness ==
  \E p \in DOMAIN pipelines :
    /\ pipelines[p].failed >= 1
    /\ \E n \in DOMAIN pipelines[p].cycles :
         /\ pipelines[p].cycles[n].step = "Apply"
         /\ pipelines[p].cycles[n].batch # {}

\* C27: a pipeline has at most one cycle in flight, and a pipeline with no
\* cycle in flight can start one whatever the other pipelines are doing.
C27_CyclesSerializedPerPipeline ==
  \A p \in DOMAIN pipelines :
    /\ Cardinality(DOMAIN pipelines[p].cycles) <= 1
    /\ (/\ pipelines[p].cycles = <<>>
        /\ pipelines[p].started < MaxCycles) => ENABLED SyncTick(p)

\* the cycles of two pipelines are applying their batches at the same time
C27_Witness ==
  \E p, q \in DOMAIN pipelines :
    /\ p # q
    /\ \E n \in DOMAIN pipelines[p].cycles : pipelines[p].cycles[n].step = "Apply"
    /\ \E n \in DOMAIN pipelines[q].cycles : pipelines[q].cycles[n].step = "Apply"

(***************************************************************************)
(* Properties of the ticket verification.                                  *)
(***************************************************************************)
\* whether the proof of the submitted ticket verifies against its claim
ProofVerifies(serializedPCD) ==
  IF serializedPCD.type = EdDSAPCDTypeName
  THEN EdDSATicketVerify(serializedPCD.pcd).resolvesTo
  ELSE ZKEdDSAEventTicketVerify(serializedPCD.pcd).resolvesTo

\* the key the submitted ticket says it is signed with
SigningKey(serializedPCD) ==
  IF serializedPCD.type = EdDSAPCDTypeName
  THEN serializedPCD.pcd.proof.eddsaPCD.claim.publicKey
  ELSE serializedPCD.pcd.claim.signer

TicketTypeOf(serializedPCD) ==
  IF serializedPCD.type = EdDSAPCDTypeName
  THEN serializedPCD.pcd.claim.ticket
  ELSE serializedPCD.pcd.claim.partialTicket

\* C28: a ticket is answered verified only when its proof verifies against
\* its claim and its event and product are a known ticket type whose public
\* key is the key the ticket is signed with; a ticket whose proof does not
\* verify is answered not verified.
C28_VerifiedOnlyWithValidProof ==
  \A v \in {ticketVerification[i] : i \in DOMAIN ticketVerification} :
    (v.request.parses
       /\ v.request.pcd.type \in {EdDSAPCDTypeName, ZKEdDSAEventTicketPCDTypeName}) =>
      /\ v.result.kind = "value"
      /\ v.result.verified =>
           /\ ProofVerifies(v.request.pcd)
           /\ \E tt \in KnownTicketTypes :
                /\ tt.event_id = TicketTypeOf(v.request.pcd).eventId
                /\ tt.product_id = TicketTypeOf(v.request.pcd).productId
                /\ tt.public_key = SigningKey(v.request.pcd)
      /\ ~ProofVerifies(v.request.pcd) => ~v.result.verified

(***************************************************************************)
(* Properties of the Devconnect feed: whose tickets a response carries.    *)
(***************************************************************************)
\* C29: every artifact in a response of the Devconnect feed is of a ticket
\* of the table whose email is the email of the user registered under the
\* identity commitment of the credential, states that email, and carries
\* that commitment as attendeeSemaphoreId.
C29_OnlyOwnTickets ==
  (req.pc = "responded" /\ req.feed = "Devconnect") =>
    \A ticket \in CarriedTickets :
      /\ req.pcd # <<>>
      /\ LET user == fetchUserByCommitment(req.pcd[1].pcd.identityCommitment)
         IN  /\ user # <<>>
             /\ ticket.attendeeSemaphoreId = user[1].commitment
             /\ ticket.attendeeEmail = user[1].email
             /\ ticket.ticketId \in DOMAIN ticketsDB
             /\ ticketsDB[ticket.ticketId].email = user[1].email

\* bob polled the Devconnect feed and was answered with the artifact of his
\* ticket, while the table holds the tickets of alice
C29_Witness ==
  /\ req.pc = "responded"
  /\ req.feed = "Devconnect"
  /\ req.pcd # <<>>
  /\ req.pcd[1].pcd.identityCommitment = "c_bob"
  /\ Cardinality(CarriedTickets) = 1
  /\ \E id \in DOMAIN ticketsDB : ticketsDB[id].email = "alice@x"

(***************************************************************************)
(* Properties of the auth bot.                                             *)
(***************************************************************************)
\* C30: a join request is approved only if the verification of its user
\* for its chat was on record when the handler read it; a requester who
\* was not verified then is told to start again and is not approved.
C30_ApprovesOnlyVerified ==
  \A j \in JoinRequests :
    LET join == telegram.joins[j]
    IN  /\ (join.approved \/ join.pc \in {"getGroupChat", "approve"}) =>
             join.verifiedAtFetch = <<TRUE>>
        /\ join.verifiedAtFetch = <<FALSE>> =>
             /\ ~join.approved
             /\ join.pc \in {"notVerified", "done"}
             /\ join.pc = "done" => join.messages = <<NotVerifiedMessage>>

\* one requester was approved and another, not verified, was told to start
\* again
C30_Witness ==
  \E i, j \in JoinRequests :
    /\ telegram.joins[i].approved
    /\ telegram.joins[j].pc = "done"
    /\ telegram.joins[j].verifiedAtFetch = <<FALSE>>
    /\ telegram.joins[j].messages = <<NotVerifiedMessage>>


LastVerifications == {telegram.verification[i] : i \in DOMAIN telegram.verification}

\* the presented PCD is a ZK ticket or ZK frog PCD
IsZKPCD(request) ==
  request.serializedPCD.type \in {ZKEdDSAEventTicketPCDTypeName, ZKEdDSAFrogPCDTypeName}

\* what the verification of a presented ZK PCD requires: the proof verifies,
\* the server's key signed it, the watermark is the Telegram user id, the
\* owner's semaphore id is revealed and, for a ticket, the valid event ids
\* are the events linked to the chat
PassesVerification(request) ==
  LET pcd == request.serializedPCD.pcd[1]
  IN  /\ IsZKPCD(request)
      /\ pcd.proof.valid
      /\ pcd.claim.watermark = request.telegramUserId
      /\ IF request.serializedPCD.type = ZKEdDSAEventTicketPCDTypeName
         THEN /\ pcd.claim.signer = ServerEdDSAPublicKey
              /\ pcd.claim.partialTicket.attendeeSemaphoreId # Undefined
              /\ pcd.claim.validEventIds # <<>>
              /\ fetchTelegramEventsByChatId(request.telegramChatId) # {}
              /\ pcd.claim.validEventIds[1] =
                   fetchTelegramEventsByChatId(request.telegramChatId)
         ELSE /\ pcd.claim.signerPublicKey = ServerEdDSAPublicKey
              /\ pcd.claim.partialFrog.ownerSemaphoreId # Undefined

\* C32: handleVerification given a ZK ticket or ZK frog PCD that passes
\* verification records the user as verified for the chat and sends the
\* invite link; for a PCD that was not verified no invite link is sent
C32_VerifiedGetInviteLink ==
  \A v \in LastVerifications :
    v.route = "handleVerification" =>
      /\ PassesVerification(v.request) =>
           /\ v.outcome.inserted =
                {<<v.request.telegramUserId, v.request.telegramChatId>>}
           /\ v.outcome.inviteSent
      /\ ~PassesVerification(v.request) => ~v.outcome.inviteSent

\* C33: a verification record is inserted only for the user and chat of a
\* request whose ZK PCD passes every check; a ZK PCD that fails one raises
\* an error and inserts nothing; the records change in no other way
C33_InsertOnlyWhenAllChecksPass ==
  /\ [](\A v \in LastVerifications :
          /\ v.outcome.inserted # {} =>
               /\ PassesVerification(v.request)
               /\ v.outcome.error = ""
               /\ v.outcome.inserted =
                    {<<v.request.telegramUserId, v.request.telegramChatId>>}
          /\ (IsZKPCD(v.request) /\ ~PassesVerification(v.request)) =>
               /\ v.outcome.error # ""
               /\ v.outcome.inserted = {})
  /\ [][/\ telegram'.verification # <<>>
        /\ telegram'.verifications =
             telegram.verifications \cup telegram'.verification[1].outcome.inserted
       ]_vars

\* a ticket PCD passed every check and its user is the one recorded for the
\* chat
C33_Witness ==
  \E v \in LastVerifications :
    /\ v.route = "handleVerification"
    /\ v.request.serializedPCD.type = ZKEdDSAEventTicketPCDTypeName
    /\ v.outcome.inserted # {}
    /\ telegram.verifications = v.outcome.inserted


\* C34: for every nullifier hash of the anonymous topic, whatever the
\* interleaving of the handleSendAnonymousMessage calls, at most
\* MaxDailyPostsPerTopic messages are posted and recorded within 24 hours,
\* and a call over the limit fails with "Rate limit exceeded" having posted
\* and recorded nothing
C34_DailyLimitUnderInterleaving ==
  /\ \A n \in NullifierHashes :
       /\ telegram.anon.posted[n] <= MaxDailyPostsPerTopic
       /\ telegram.anon.recorded[n] <= MaxDailyPostsPerTopic
  /\ \A k \in AnonCalls :
       telegram.anon.calls[k].error = RateLimitExceeded =>
         /\ ~telegram.anon.calls[k].sent
         /\ telegram.anon.calls[k].pc = "failed"


\* C35: whatever handleReactAnonymousMessage calls were made, at most one
\* reaction is stored per (reactor nullifier, message, emoji) and none is by
\* the author of the message; a call that reacts to the caller's own message
\* or repeats a stored reaction ends with an error
C35_ReactionsUniqueAndNotOwn ==
  /\ \A key \in DOMAIN telegram.reacts.reactions :
       /\ telegram.reacts.reactions[key] <= 1
       /\ \A m \in AnonMessageTable : m.id = key[2] => m.nullifier # key[1]
  /\ \A k \in ReactCalls :
       LET call == telegram.reacts.calls[k]
       IN  /\ call.duplicateAtInsert =>
                call.pc = "failed" /\ call.error = ReactedTwiceError
           /\ (call.pc \in {"insertTelegramReaction", "done"}) =>
                \A m \in AnonMessageTable :
                  m.id = call.request[1].anonMessageId =>
                    m.nullifier # call.request[1].nullifierHash

\* one reaction is stored, a repetition of it was rejected and so was a
\* reaction of the author
C35_Witness ==
  /\ \E key \in DOMAIN telegram.reacts.reactions :
       telegram.reacts.reactions[key] = 1
  /\ \E k \in ReactCalls :
       /\ telegram.reacts.calls[k].duplicateAtInsert
       /\ telegram.reacts.calls[k].error = ReactedTwiceError
  /\ \E k \in ReactCalls : telegram.reacts.calls[k].error = OwnMessageError


\* C36: a verification promise that rejected has no entry in
\* verificationPromiseCache, and a verification that resolved, to true or to
\* false, stays memoized: once a cachedVerifySignaturePCD call has returned a
\* verdict, the cache holds a promise for its serialized PCD
C36_RejectedEvictedResolvedMemoized ==
  /\ \A k \in DOMAIN verificationPromiseCache :
       promises[verificationPromiseCache[k]].state # "rejected"
  /\ \A v \in VerifyCalls :
       (vcalls[v].pc = "done" /\ vcalls[v].result # <<>>) =>
         VerificationKey(vcalls[v].serializedPCD) \in DOMAIN verificationPromiseCache


\* the redacted tickets of the user of the transaction when it began
RedactedAtBegin ==
  fetchDevconnectPretixRedactedTicketsByHashedEmail(
    unredaction.begin.redactedTickets, getHash(unredaction.email))

\* C37: agreeTermsAndUnredactTickets is all or nothing.  Until it commits,
\* and for good if it fails, the other connections read the tables as they
\* were when it began; once it has committed they read terms_agreed set,
\* every ticket restored and no redacted ticket of the user, as one commit
\* of the whole function leaves them.  So no reader finds a ticket in
\* neither table, or the terms agreed with a ticket still redacted
C37_UnredactAllOrNothing ==
  /\ unredaction.pc \in {"update", "select", "insert", "delete", "commit",
                         "rolledBack"} =>
       Tables = unredaction.begin
  /\ unredaction.pc = "committed" =>
       /\ termsAgreed[unredaction.email] = unredaction.version
       /\ ticketsDB = unredactTickets(unredaction.begin.ticketsDB,
                                      unredaction.email, RedactedAtBegin)
       /\ \A row \in redactedTickets :
            row.hashed_email # getHash(unredaction.email)
  /\ unredaction.pc # "idle" =>
       /\ \A row \in RedactedAtBegin :
            \/ row \in redactedTickets
            \/ RowsUnderKey(ticketsDB, row) # {}
       /\ termsAgreed[unredaction.email] # unredaction.begin.termsAgreed[unredaction.email] =>
            \A row \in RedactedAtBegin :
              /\ row \notin redactedTickets
              /\ \E id \in RowsUnderKey(ticketsDB, row) :
                   ticketsDB[id].email = unredaction.email

\* a transaction failed after it had updated the terms and inserted a
\* ticket: the redacted ticket is still there and the terms are not agreed
C37_Witness ==
  /\ unredaction.pc = "rolledBack"
  /\ RedactedAtBegin # {}
  /\ unredaction.work.ticketsDB # unredaction.begin.ticketsDB
  /\ unredaction.work.termsAgreed # unredaction.begin.termsAgreed


\* the keys of ITicketData
TicketKeys ==
  {TicketFieldOrder[i] : i \in DOMAIN TicketFieldOrder}
    \cup {ZuTicketFieldOrder[i] : i \in DOMAIN ZuTicketFieldOrder}

\* two tickets hold the same data: a key that is absent reads undefined
SameTicket(a, b) ==
  \A k \in TicketKeys :
    IF k \in OptionalKeys
    THEN (IF k \in DOMAIN a THEN a[k] ELSE Undefined)
           = (IF k \in DOMAIN b THEN b[k] ELSE Undefined)
    ELSE /\ (k \in DOMAIN a) = (k \in DOMAIN b)
         /\ k \in DOMAIN a => a[k] = b[k]

\* two EdDSATicketPCDs with the same id, ticket claim and proof
SamePCD(p, q) ==
  /\ p.id = q.id
  /\ SameTicket(p.claim.ticket, q.claim.ticket)
  /\ p.proof = q.proof

C39_ReturnedPipelinesAreStarted ==
  \A i \in Instantiations :
    LET call == instantiations[i]
    IN  /\ call.returned # <<>> =>
             /\ call.startedAtReturn
             /\ call.returned[1].start = "completed"
             /\ call.definition[1].type \in PipelineTypes
             /\ call.returned[1].class = call.definition[1].type \o "Pipeline"
        /\ (call.definition # <<>> /\ call.definition[1].type \notin PipelineTypes) =>
             /\ call.pc = "failed"
             /\ call.error = CouldNotInstantiate
             /\ call.pipeline = <<>>
             /\ call.returned = <<>>

\* one call returned a started pipeline and another failed on a definition
\* of no known type
C39_Witness ==
  \E i, j \in Instantiations :
    /\ instantiations[i].pc = "done"
    /\ instantiations[i].returned # <<>>
    /\ instantiations[j].pc = "failed"
    /\ instantiations[j].error = CouldNotInstantiate

====
